---- MODULE Spec2Model ----
(***************************************************************************)
(* Orgpulse-cli: the paginated, rate-limited, checkpointable fetch         *)
(* pipeline of src/commands/fetch.js (src/unnamed/part_000) and the REST   *)
(* client of src/github/api.js.                                            *)
(*                                                                         *)
(* The module holds one state machine per component, over one set of       *)
(* variables; each specification moves its own component and leaves the    *)
(* variables of the others at their initial values:                        *)
(*   SpecLimiter  ConcurrencyLimiter under free add() calls                *)
(*   SpecLimiterLive  the same, with terminating tasks and firing timers   *)
(*   SpecWait     the same, with one waitForCompletion() call              *)
(*   SpecRetry    graphqlWithRetry, requestWithRetry, makeRequestWithRetry *)
(*                and fetchWithRateLimit, with a clock                     *)
(*   SpecBatch    BatchProcessor.processItems over its own limiter         *)
(*   SpecFetch    handleFetchAction: fetchRepositories, fetchIssues and    *)
(*                fetchRepoIssues over the checkpoint file and the store,  *)
(*                in successive runs of the command                        *)
(*   SpecResume   SpecFetch restricted to repeated runs for one existing   *)
(*                organization within the hour                             *)
(*   SpecSoft     SpecResume over a disk that may refuse or truncate a      *)
(*                checkpoint write                                         *)
(*   SpecUpsert   the upserts of fetch.js and db/model.js on one collection *)
(*   SpecDecide   CheckpointManager.shouldResumeFromCheckpoint on each input *)
(*   SpecPair     makeRequestWithRetry and requestWithRetry given the same  *)
(*                responses                                                *)
(*   SpecSince    fetchRepositories and fetchRepoIssues on one connection, *)
(*                with and without the since date                          *)
(*   SpecRest     GitHubAPI.fetchOrgRepos on one organization              *)
(*   SpecConn     db/connection.js: connectToMongo, closeConnection and   *)
(*                the client's event handlers, interleaved                 *)
(***************************************************************************)
EXTENDS Integers, Sequences, FiniteSets, TLC

\* ------------------------------------------------------------------ bounds
MaxTasks == 4          \* add() calls made on one limiter (SpecLimiter)
MaxItems == 5          \* longest item list given to processItems (SpecBatch)
MaxLimit == 2          \* largest limit a limiter is constructed with (SpecLimiter)
MaxRateLimited == 2    \* rate-limited responses the server gives one request
MaxRuns == 2           \* invocations of the fetch command (SpecFetch)
MaxResumeRuns == 3     \* invocations for one organization (SpecResume)
MaxRepos == 3          \* repositories of the largest organization (SpecFetch)
RepoPageSize == 2      \* repositories per page; stands for first: 100 (part_000:269)
MaxIssues == 2         \* issues of the largest repository (SpecFetch)
IssuePageSize == 1     \* issues per page; stands for first: 30 (part_000:357)
IssueBatchSize == 2      \* repositories per batch; stands for 5 (part_000:445)
MaxClockStart == 6     \* latest start of a request, in half seconds (SpecRetry)
MaxSoftRuns == 2       \* invocations for one organization (SpecSoft)
MaxSkew == 2           \* ms around the hour that timestamps and Date.now() range over (SpecDecide)
MaxScript == 4         \* error responses before the success (SpecPair)
MaxPersists == 3       \* upsert calls made on one collection (SpecUpsert)
MaxDate == 2           \* latest value of new Date() (SpecUpsert)
MaxKeys == 2           \* distinct document keys (SpecUpsert)
UpsertBatchSize == 1   \* stands for IssueModel.bulkUpsert's batchSize = 100 (model.js:107)

\* ------------------------------------------------------ program constants
CONCURRENT_REPOS == 3  \* part_000:9
MAX_RETRIES == 3       \* part_000:10
maxRetries == 3        \* api.js:8
retries == 3           \* request.js:3
maxPages == 5          \* part_000:350
FRESH_MS == 3600000    \* part_000:480
ONE_HOUR_MS == 3600000 \* utils/checkpoint.js:62 (60 * 60 * 1000)

VARIABLES
  \* ConcurrencyLimiter (part_000:13-61)
  limit,       \* this.limit
  running,     \* this.running
  queue,       \* this.queue: task ids, oldest first
  tstate,      \* per task: "new" (not added), "queued", "running", "resolved", "rejected"
  timers,      \* pending setTimeout(() => this.process(), 100) callbacks
  admittedAt,  \* history: the value of running read by the process() call that started the task
  tdelay,      \* per task: whether the fn given to add() first awaits a timer (part_000:89)
  \* BatchProcessor.processItems (part_000:64-131)
  nItems,      \* items.length; item k is the k-th task added to the processor's limiter
  batchSize,   \* this.batchSize
  bpc,         \* "idle", "awaitBatch" (line 94), "batchDelay" (line 118),
               \* "waitForCompletion" (line 122), "returned"
  bi,          \* the loop variable i
  results,     \* this.results: the items, in push order
  errors,      \* this.errors: the items, in push order
  progressCalls, \* history: the onProgress calls, <<item, success>>
  batchCalls,  \* history: the onBatchComplete calls, <<batchNumber, totalBatches>>
  \* the fetch command (part_000:225-496)
  ckptFile,    \* checkpoint.json: [exists, data]
  repoStore,   \* the repos collection: the keys <<org, name>> of its documents
  issueStore,  \* the issues collection: the keys <<org, repo name, number>>
  now,         \* Date.now()
  runs,        \* history: invocations so far
  hpc,         \* handleFetchAction: "idle", "connect" (line 476), "repoRequest" (287),
               \* "repoBulkWrite" (324), "repoSleep" (333), "issuesFind" (438),
               \* "issues" (459), "closing" (494), "done", "killed"
  org,         \* the org argument
  exitCode,    \* process.exitCode
  failure,     \* history: what threw into handleFetchAction's catch ("none" if nothing)
  cpAtStart,   \* history: the checkpoint fetchRepositories loaded (line 251)
  staleAtStart,\* history: that checkpoint was older than FRESH_MS when loaded
  startCursor, \* history: endCursor as initialised at line 254
  startCount,  \* history: fetched as initialised at line 255
  ckptAtThrow, \* history: the checkpoint file when the error was thrown
  issuesStarted, \* history: fetchIssues was called in this invocation
  rHasNext,    \* fetchRepositories: hasNextPage
  rCursor,     \* fetchRepositories: endCursor
  rFetched,    \* fetchRepositories: fetched
  rPage,       \* fetchRepositories: page
  fcp,         \* fetchIssues: cp (line 436)
  repos,       \* fetchIssues: repos, the repository names in processing order
  totalFetched,\* fetchIssues: totalFetched
  tl,          \* fetchRepoIssues, per task: [ipc, hasNext, cursor, fetched, page]
  \* one logical request in a retry loop (part_000:181-221, api.js:56-77)
  rImpl,       \* which function runs: "graphql", "rest", "makeRequest" (api.js),
               \* "fetchWithRateLimit" (request.js)
  rpc,         \* "call": about to issue an attempt; "sleepRL"/"sleepBackoff": awaiting a sleep;
               \* "returned"; "thrown"
  retry,       \* the retry / retryCount argument of the current invocation
  attempts,    \* history: calls of the underlying octokit request made so far
  lastErr,     \* the error caught last (NoErr before any)
  nTransient,  \* history: failures so far that the contract classifies retryable-transient
  nRateLimited,\* history: failures so far that the contract classifies rate-limited
  nOther,      \* history: the remaining outcomes so far (successes and fatal errors)
  clock,       \* Date.now() as the retry loop sees it, in ms
  backoffs,    \* history: the durations of the backoff sleeps taken so far, in order
  \* one MongoDB collection and the functions that upsert into it
  \* (part_000:297-324, 388-407; db/model.js:66-73, 107-122)
  uOp,         \* which function writes: "fetchRepositories", "fetchRepoIssues",
               \* "RepoModel.upsert", "IssueModel.bulkUpsert"
  coll,        \* the collection: its documents [key, val, createdAt, updatedAt] in
               \* insertion order
  date,        \* new Date()
  persisted,   \* history: the documents given to the last call
  afterFirst,  \* history: the collection as the first call with these documents left it
  persists,    \* history: consecutive calls made with these documents
  calls,       \* history: calls made so far
  \* the file system under the checkpoint file
  diskFaults,  \* whether fs.writeFileSync may throw (and leave the file as it was, or
               \* truncated) in this behaviour
  \* one call of CheckpointManager.shouldResumeFromCheckpoint (utils/checkpoint.js:56-64)
  mCheckpoint, \* the argument checkpoint: null, or an object of which org and timestamp
               \* are read
  mOrg,        \* the argument org
  mNow,        \* Date.now() during the call
  mpc,         \* "call" before the call, "returned" after it
  mResult,     \* the value returned
  \* makeRequestWithRetry (api.js:56-77) and requestWithRetry (part_000:202-221), each
  \* on its own request, served the same responses
  script,      \* the error responses the server gives before it answers
  pairPos,     \* per function: the index of its next attempt
  pairRetry,   \* per function: the retryCount / retry argument of its current invocation
  pairWaits,   \* per function, history: the kinds of the waits it has taken, in order
  pairOut,     \* per function: "running", "returned", "thrown"
  pairErr,     \* per function: the error it threw (NoErr if none)
  \* one call of fetchRepositories or fetchRepoIssues on one connection, with the
  \* `since` argument (part_000:247-338, 341-430)
  sFn,         \* which function runs: "fetchRepositories" or "fetchRepoIssues"
  since,       \* the since argument: NoSince (undefined) or a date
  sNodes,      \* the connection: the pushedAt (createdAt) of its nodes, in the order the
               \* API returns them
  sPc,         \* "request" (line 287 / 370), "bulkWrite" (324 / 407), "sleep" (333 / 422),
               \* "returned", "thrown"
  sLoc,        \* the locals [hasNext, cursor, fetched, page], and as history the cursor
               \* and the count the call started from [start, startCount]
  sStore,      \* the collection: the positions of the nodes persisted by this call
  sCkpt,       \* the checkpoint entry written last: [set, endCursor, count]
  sKept,       \* history: the number of items kept of each page processed, in order
  \* one call of GitHubAPI.fetchOrgRepos (api.js:89-151)
  oSince,      \* the since argument: NoSince (null) or a date
  oStart,      \* the startPage argument
  oList,       \* the organization's repositories as the server lists them: the pushed_at
               \* of each
  oPc,         \* "request" (line 101), "sleep" (line 141), "returned", "thrown"
  oPage,       \* page
  oHasNext,    \* hasNextPage
  oRepos,      \* repos: the positions in oList of the repositories pushed to it, in order
  oRequested,  \* history: the page numbers requested, in order
  \* the connection module (db/connection.js, model.js:205-293)
  mongoClientInstance, \* NullRef or the client
  databaseInstance,    \* NullRef or the db handle, named by the client it came from
  connectionState,     \* "DISCONNECTED", "CONNECTING", "CONNECTED"
  pendingConnects,     \* connectToMongo calls awaiting connect() (line 254)
  pendingCloses,       \* closeConnection calls awaiting close() (line 271): how many were
                       \* called directly, and how many by attemptReconnect (line 234)
  reconnectTimers,     \* pending setTimeout(connectToMongo, 2000) callbacks (line 235)
  listeners,           \* the clients on which the handlers of lines 258-259 are registered
  clientsMade,         \* history: clients constructed so far
  connCalls            \* history: calls made from outside, [connect, close], and heartbeat
                       \* failures emitted, [heartbeat]

limVars == <<limit, running, queue, tstate, timers, admittedAt, tdelay>>
batchVars == <<nItems, batchSize, bpc, bi, results, errors, progressCalls, batchCalls>>
retryVars == <<rImpl, rpc, retry, attempts, lastErr, nTransient, nRateLimited, nOther,
               clock, backoffs>>
diskVars == <<ckptFile, repoStore, issueStore, now, runs>>
runVars == <<hpc, org, exitCode, failure, cpAtStart, staleAtStart, startCursor, startCount,
             ckptAtThrow, issuesStarted>>
repoVars == <<rHasNext, rCursor, rFetched, rPage>>
issueVars == <<fcp, repos, totalFetched, tl>>
fetchVars == <<diskVars, runVars, repoVars, issueVars>>
upsertVars == <<uOp, coll, date, persisted, afterFirst, persists, calls>>
decideVars == <<mCheckpoint, mOrg, mNow, mpc, mResult>>
pairVars == <<script, pairPos, pairRetry, pairWaits, pairOut, pairErr>>
sinceVars == <<sFn, since, sNodes, sPc, sLoc, sStore, sCkpt, sKept>>
restVars == <<oSince, oStart, oList, oPc, oPage, oHasNext, oRepos, oRequested>>
connVars == <<mongoClientInstance, databaseInstance, connectionState, pendingConnects,
              pendingCloses, reconnectTimers, listeners, clientsMade, connCalls>>
extVars == <<sinceVars, restVars, connVars>>
utilVars == <<upsertVars, diskFaults, decideVars, pairVars, extVars>>
coreVars == <<limVars, batchVars, retryVars, fetchVars>>
vars == <<coreVars, utilVars>>

\* ============================================================ ConcurrencyLimiter
Tasks == 1..MaxTasks

\* process(), line 33: the early return
ProcessReturnsEarlyOffByOne(r, q) == r > limit \/ Len(q) = 0
ProcessReturnsEarly(r, q) == r >= limit \/ Len(q) = 0

\* process(), lines 33-39, up to the first await inside fn(): the limiter after the call.
\* fn() runs synchronously to its first await: the timer of line 89 ("delay") or the
\* first await of the task proper ("running").
Process(s) ==
  IF ProcessReturnsEarly(s.running, s.queue) THEN s
  ELSE [s EXCEPT !.running = @ + 1,
                 !.queue = Tail(@),
                 !.tstate[Head(s.queue)] = IF s.tdelay[Head(s.queue)] THEN "delay" ELSE "running",
                 !.admittedAt[Head(s.queue)] = s.running]

LimNow == [running |-> running, queue |-> queue, tstate |-> tstate, timers |-> timers,
           admittedAt |-> admittedAt, tdelay |-> tdelay]

LimSet(s) ==
  /\ running' = s.running
  /\ queue' = s.queue
  /\ tstate' = s.tstate
  /\ timers' = s.timers
  /\ admittedAt' = s.admittedAt
  /\ tdelay' = s.tdelay

\* this.queue.push(...), line 22
EnqueueFront(q, t) == <<t>> \o q
Enqueue(q, t) == Append(q, t)

\* add(fn), lines 20-30: push, then process(); d tells whether fn first awaits a timer
Add(s, t, d) ==
  Process([s EXCEPT !.queue = Enqueue(@, t), !.tstate[t] = "queued", !.tdelay[t] = d])

\* the awaited fn() settles, lines 39-49: resolve or reject, running--, setTimeout(process, 100)
SettleWithoutTimer(s, t, outcome) ==
  [s EXCEPT !.tstate[t] = outcome, !.running = @ - 1]
Settle(s, t, outcome) ==
  [s EXCEPT !.tstate[t] = outcome, !.running = @ - 1, !.timers = @ + 1]

\* a delayed process() call runs, line 48
TimerFire(s) == Process([s EXCEPT !.timers = @ - 1])

\* the constructor, lines 14-18, for a limiter that will be given the tasks of S
LimInit(S) ==
  /\ running = 0
  /\ queue = <<>>
  /\ tstate = [t \in S |-> "new"]
  /\ timers = 0
  /\ admittedAt = [t \in S |-> -1]
  /\ tdelay = [t \in S |-> FALSE]

\* a caller calls add(): the tasks are numbered in the order of the calls
LimAdd ==
  /\ \E t \in Tasks, d \in BOOLEAN :
       /\ tstate[t] = "new"
       /\ \A u \in Tasks : u < t => tstate[u] # "new"
       /\ LimSet(Add(LimNow, t, d))
  /\ UNCHANGED limit

\* the timer a task's fn awaits first fires (line 89): the task proper begins
LimTaskDelayEnds ==
  /\ \E t \in DOMAIN tstate :
       /\ tstate[t] = "delay"
       /\ tstate' = [tstate EXCEPT ![t] = "running"]
  /\ UNCHANGED <<limit, running, queue, timers, admittedAt, tdelay>>

LimTaskSettles ==
  /\ \E t \in Tasks, outcome \in {"resolved", "rejected"} :
       /\ tstate[t] = "running"
       /\ LimSet(Settle(LimNow, t, outcome))
  /\ UNCHANGED limit

LimTimerFires ==
  /\ timers > 0
  /\ LimSet(TimerFire(LimNow))
  /\ UNCHANGED limit

\* ================================================================ BatchProcessor
Min(a, b) == IF a < b THEN a ELSE b

\* the items of the batch that starts at i (0-based), line 82: items.slice(i, i + batchSize),
\* as the item numbers lo..hi (1-based)
BatchLo(i) == i + 1
BatchHiShort(i, bs, n) == Min(i + bs, n) - 1
BatchHi(i, bs, n) == Min(i + bs, n)
\* lines 83-84
BatchNumberZeroBased(i, bs) == i \div bs
BatchNumber(i, bs) == (i \div bs) + 1
TotalBatches(bs, n) == (n + bs - 1) \div bs

RECURSIVE SubmitFrom(_, _, _, _)
\* lines 87-92: batch.map(... this.limiter.add(...)), the items k..hi of the batch from lo
SubmitFrom(s, lo, k, hi) ==
  IF k > hi THEN s ELSE SubmitFrom(Add(s, k, k - lo > 0), lo, k + 1, hi)
SubmitBatch(s, i, bs, n) == SubmitFrom(s, BatchLo(i), BatchLo(i), BatchHi(i, bs, n))

\* Promise.allSettled(batchPromises) has settled, line 94
BatchSettledAny(s, i, bs, n) ==
  \E k \in BatchLo(i)..BatchHi(i, bs, n) : s.tstate[k] \in {"resolved", "rejected"}
BatchSettled(s, i, bs, n) ==
  \A k \in BatchLo(i)..BatchHi(i, bs, n) : s.tstate[k] \in {"resolved", "rejected"}

RECURSIVE CollectNewestFirst(_, _, _, _)
CollectNewestFirst(s, k, hi, outcome) ==
  IF k > hi THEN <<>>
  ELSE CollectNewestFirst(s, k + 1, hi, outcome) \o (IF s.tstate[k] = outcome THEN <<k>> ELSE <<>>)
RECURSIVE Collect(_, _, _, _)
\* lines 95-105: the items k..hi (in that order) whose promise ended as `outcome`
Collect(s, k, hi, outcome) ==
  IF k > hi THEN <<>>
  ELSE (IF s.tstate[k] = outcome THEN <<k>> ELSE <<>>) \o Collect(s, k + 1, hi, outcome)
RECURSIVE ProgressOf(_, _, _)
\* lines 99, 103: the onProgress calls of the batch, in order
ProgressOf(s, k, hi) ==
  IF k > hi THEN <<>>
  ELSE <<<<k, s.tstate[k] = "resolved">>>> \o ProgressOf(s, k + 1, hi)

BatchInit ==
  /\ bpc = "idle"
  /\ bi = 0
  /\ results = <<>>
  /\ errors = <<>>
  /\ progressCalls = <<>>
  /\ batchCalls = <<>>

\* processItems is called, lines 72-94: with no items the loop is skipped and
\* waitForCompletion is awaited; otherwise the first batch is submitted
ProcessItemsCalled ==
  /\ bpc = "idle"
  /\ IF nItems = 0
     THEN bpc' = "waitForCompletion" /\ UNCHANGED limVars
     ELSE /\ bpc' = "awaitBatch"
          /\ LimSet(SubmitBatch(LimNow, 0, batchSize, nItems))
          /\ UNCHANGED limit
  /\ UNCHANGED <<nItems, batchSize, bi, results, errors, progressCalls, batchCalls>>

\* lines 95-119 and 122, run when the last promise of the batch settles: the batch's
\* outcomes are recorded, the callbacks run, and the loop sleeps or ends
AfterBatch(s) ==
  IF bpc = "awaitBatch" /\ BatchSettled(s, bi, batchSize, nItems)
  THEN /\ results' = results \o Collect(s, BatchLo(bi), BatchHi(bi, batchSize, nItems), "resolved")
       /\ errors' = errors \o Collect(s, BatchLo(bi), BatchHi(bi, batchSize, nItems), "rejected")
       /\ progressCalls' =
            progressCalls \o ProgressOf(s, BatchLo(bi), BatchHi(bi, batchSize, nItems))
       /\ batchCalls' =
            Append(batchCalls, <<BatchNumber(bi, batchSize), TotalBatches(batchSize, nItems)>>)
       /\ IF bi + batchSize < nItems
          THEN bpc' = "batchDelay" /\ bi' = bi
          ELSE bpc' = "waitForCompletion" /\ bi' = bi + batchSize
       /\ UNCHANGED <<nItems, batchSize>>
  ELSE UNCHANGED batchVars

\* a task of the processor settles (and with the last of a batch, the batch)
BatchTaskSettles ==
  /\ \E t \in DOMAIN tstate, outcome \in {"resolved", "rejected"} :
       /\ tstate[t] = "running"
       /\ LimSet(Settle(LimNow, t, outcome))
       /\ AfterBatch(Settle(LimNow, t, outcome))
  /\ UNCHANGED limit

\* the inter-batch sleep ends, line 118: i += batchSize and the next batch is submitted
BatchDelayEnds ==
  /\ bpc = "batchDelay"
  /\ bi' = bi + batchSize
  /\ bpc' = "awaitBatch"
  /\ LimSet(SubmitBatch(LimNow, bi + batchSize, batchSize, nItems))
  /\ UNCHANGED <<limit, nItems, batchSize, results, errors, progressCalls, batchCalls>>

\* the loop condition of waitForCompletion, line 57
WaitConditionRunningOnly(r, q) == r > 0
WaitCondition(r, q) == r > 0 \/ Len(q) > 0

\* a caller calls waitForCompletion() on the limiter, line 56, at a time of its choosing
WaitForCompletionCalled ==
  /\ bpc = "idle"
  /\ bpc' = "waitForCompletion"
  /\ UNCHANGED <<limVars, nItems, batchSize, bi, results, errors, progressCalls, batchCalls>>

\* waitForCompletion, lines 56-60 and 122-129: the loop ends once the limiter is idle
WaitForCompletionReturns ==
  /\ bpc = "waitForCompletion"
  /\ ~WaitCondition(running, queue)
  /\ bpc' = "returned"
  /\ UNCHANGED <<limVars, nItems, batchSize, bi, results, errors, progressCalls, batchCalls>>

\* ================================================================== retry loops
NoStatus == 0    \* error.status undefined: a network-level failure
Absent == "absent"
Statuses == {NoStatus, 403, 404, 422, 429, 500, 503}
Remainings == {Absent, "0", "7"}
NoReset == -1    \* no x-ratelimit-reset header
Resets == {NoReset, 1, 2}    \* x-ratelimit-reset, in seconds
NoErr == [status |-> -1, remaining |-> Absent, reset |-> NoReset]
Errors == [status : Statuses, remaining : Remainings, reset : Resets]

\* GitHubAPIWithRetries.isRateLimited, part_000:148-151
IsRateLimitedForbiddenOnly(e) == e.status = 403 /\ e.remaining = "0"
IsRateLimitedFetch(e) == (e.status = 403 \/ e.status = 429) /\ e.remaining = "0"
\* GitHubAPI.isRateLimited, api.js:23-27
IsRateLimitedApi(e) == e.status = 403 /\ e.remaining # Absent /\ e.remaining = "0"
\* isRetryableError, part_000:153-157 and api.js:30-35
IsRetryableErrorClientToo(e) == e.status = NoStatus \/ e.status >= 400
IsRetryableError(e) ==
  IF e.status = NoStatus THEN TRUE
  ELSE e.status >= 500 \/ e.status = 502 \/ e.status = 503 \/ e.status = 504 \/ e.status = 429

\* which errors each function sends to its rate-limit wait and which to its backoff;
\* fetchWithRateLimit (request.js:18-23) has no rate-limit branch and retries any error
IsRateLimited(impl, e) ==
  IF impl = "makeRequest" THEN IsRateLimitedApi(e)
  ELSE IF impl = "fetchWithRateLimit" THEN FALSE
  ELSE IsRateLimitedFetch(e)
IsRetryable(impl, e) == IF impl = "fetchWithRateLimit" THEN TRUE ELSE IsRetryableError(e)
MaxRetriesOf(impl) ==
  IF impl = "makeRequest" THEN maxRetries
  ELSE IF impl = "fetchWithRateLimit" THEN retries
  ELSE MAX_RETRIES

\* calculateBackoffDelay, part_000:144-146 and api.js:17-20; request.js:20
CalculateBackoffDelayDoubling(retryCount) == (2 ^ retryCount) * 1000
CalculateBackoffDelay(retryCount) == (3 ^ retryCount) * 1000
FetchWithRateLimitWait(attempt) == (3 ^ attempt) * 1000
BackoffDelayOf(impl, k) ==
  IF impl = "fetchWithRateLimit" THEN FetchWithRateLimitWait(k) ELSE CalculateBackoffDelay(k)

\* handleRateLimit, part_000:159-171 and api.js:38-53: the time it sleeps when called at clk
HandleRateLimitSleep(e, clk) ==
  IF e.reset = NoReset THEN 60000
  ELSE IF e.reset * 1000 - clk > 0 THEN e.reset * 1000 - clk + 1000
  ELSE 0
\* request.js:8-15: the sleep of fetchWithRateLimit before it returns a response whose
\* headers are (remaining, reset); setTimeout with a negative delay fires at once
QuotaSleep(remaining, reset, clk) ==
  IF remaining = 0 /\ reset * 1000 - clk + 1000 > 0 THEN reset * 1000 - clk + 1000 ELSE 0

\* the retry argument of the re-invocation after a rate-limit wait (part_000:190, 211; api.js:63)
RetryAfterRateLimitCounted(r) == r + 1
RetryAfterRateLimit(r) == r

\* the backoff branch's condition (part_000:192, 213; api.js:67)
MayBackoffInclusive(impl, e, r) == IsRetryable(impl, e) /\ r <= MaxRetriesOf(impl)
MayBackoff(impl, e, r) == IsRetryable(impl, e) /\ r < MaxRetriesOf(impl)

\* the contract's classification of a failure (spec 4.1)
ClassOf(e) ==
  IF (e.status = 403 \/ e.status = 429) /\ e.remaining = "0" THEN "rate-limited"
  ELSE IF e.status = NoStatus \/ e.status >= 500 \/ e.status = 429 THEN "transient"
  ELSE "fatal"

RetryStart ==
  /\ rpc = "call"
  /\ retry = 0
  /\ attempts = 0
  /\ lastErr = NoErr
  /\ nTransient = 0
  /\ nRateLimited = 0
  /\ nOther = 0
  /\ backoffs = <<>>
RetryInit == RetryStart /\ clock = 0

\* the attempt succeeds: the try block returns (part_000:183-185, 204-206; api.js:58)
AttemptSucceeds ==
  /\ rpc = "call"
  /\ attempts' = attempts + 1
  /\ nOther' = nOther + 1
  /\ rpc' = "returned"
  /\ IF rImpl = "fetchWithRateLimit"
     THEN \E remaining \in {0, 7}, reset \in Resets \ {NoReset} :
            clock' = clock + QuotaSleep(remaining, reset, clock)
     ELSE clock' = clock
  /\ UNCHANGED <<rImpl, retry, lastErr, nTransient, nRateLimited, backoffs>>

\* the attempt fails with e: the catch block, up to its await or its throw
AttemptFails ==
  /\ rpc = "call"
  /\ \E e \in Errors :
       /\ ClassOf(e) = "rate-limited" => nRateLimited < MaxRateLimited
       /\ attempts' = attempts + 1
       /\ lastErr' = e
       /\ nTransient' = nTransient + (IF ClassOf(e) = "transient" THEN 1 ELSE 0)
       /\ nRateLimited' = nRateLimited + (IF ClassOf(e) = "rate-limited" THEN 1 ELSE 0)
       /\ nOther' = nOther + (IF ClassOf(e) = "fatal" THEN 1 ELSE 0)
       /\ rpc' = IF IsRateLimited(rImpl, e) THEN "sleepRL"
                 ELSE IF MayBackoff(rImpl, e, retry) THEN "sleepBackoff"
                 ELSE "thrown"
  /\ UNCHANGED <<rImpl, retry, clock, backoffs>>

\* handleRateLimit returns: the function calls itself with the same retry
RateLimitWaitEnds ==
  /\ rpc = "sleepRL"
  /\ retry' = RetryAfterRateLimit(retry)
  /\ clock' = clock + HandleRateLimitSleep(lastErr, clock)
  /\ rpc' = "call"
  /\ UNCHANGED <<rImpl, attempts, lastErr, nTransient, nRateLimited, nOther, backoffs>>

\* the backoff sleep ends: the function calls itself with retry + 1
BackoffEnds ==
  /\ rpc = "sleepBackoff"
  /\ retry' = retry + 1
  /\ clock' = clock + BackoffDelayOf(rImpl, retry)
  /\ backoffs' = Append(backoffs, BackoffDelayOf(rImpl, retry))
  /\ rpc' = "call"
  /\ UNCHANGED <<rImpl, attempts, lastErr, nTransient, nRateLimited, nOther>>

\* the catch of GitHubAPI.fetchRepoIssues for the error makeRequestWithRetry threw,
\* api.js lines 176-183: 404 gives the empty list, any other error is thrown on
FetchRepoIssuesCatch(e) == IF e.status = 404 THEN "empty" ELSE "throws"

\* ======================================================= the GitHub GraphQL API
Orgs == {"a", "b", "empty", "ghost"}
NoOrg == "none"     \* an undefined org field
Null == 0           \* the null cursor; a cursor is the position of the last node of its page
OrgExists(o) == o # "ghost"
RepoNames == 1..MaxRepos
\* organization "a" has MaxRepos repositories named 1..MaxRepos, "b" has the one named 1,
\* "empty" exists and has none, "ghost" does not exist
RepoCount(o) == IF o = "a" THEN MaxRepos ELSE IF o = "b" THEN 1 ELSE 0
\* stargazerCount and forkCount: repository 1 has one star, the others two each, and
\* the forks tell those apart
Stars(o, r) == IF r = 1 THEN 1 ELSE 2
Forks(o, r) == r
\* in "a" repository 1 has MaxIssues issues, repository 2 has one, the others none; the
\* repository of "b" has one issue more than the page cap of fetchRepoIssues lets through
IssueCount(o, r) ==
  IF o = "b" THEN (IF r = 1 THEN maxPages * IssuePageSize + 1 ELSE 0)
  ELSE IF r = 1 THEN MaxIssues ELSE IF r = 2 THEN 1 ELSE 0

\* a connection of n nodes queried with (first: size, after: c): nodes, pageInfo
PageNodes(n, c, size) == {k \in 1..n : c < k /\ k <= c + size}
PageHasNext(n, c, size) == c + size < n
PageEndCursor(n, c, size) == IF PageNodes(n, c, size) = {} THEN Null ELSE Min(c + size, n)

\* ============================================================== checkpoint file
NoEntry == [set |-> FALSE, endCursor |-> Null, count |-> 0]
\* the object {}: no org, no repos, no issues, no progress (batchesCompleted = 0), no timestamp
EmptyCp == [org |-> NoOrg, hasRepos |-> FALSE, endCursor |-> Null, count |-> 0,
            issues |-> [r \in RepoNames |-> NoEntry], lastPage |-> 0,
            batchesCompleted |-> 0, totalBatches |-> 0, timestamp |-> -1]
\* the file: whether it exists, whether JSON.parse accepts its content, and the record
\* in it (for a file that does not parse, the record whose write was cut short)
NoFile == [exists |-> FALSE, parsable |-> FALSE, data |-> EmptyCp]

\* loadCheckpoint, lines 225-235
LoadCheckpointUnparsed(f) == IF ~f.exists THEN EmptyCp ELSE f.data
LoadCheckpoint(f) == IF ~f.exists \/ ~f.parsable THEN EmptyCp ELSE f.data
\* saveCheckpoint, lines 237-245
SaveCheckpoint(cp) ==
  [exists |-> TRUE, parsable |-> TRUE, data |-> [cp EXCEPT !.timestamp = now]]
\* a write that was cut short
Truncated(cp) == [SaveCheckpoint(cp) EXCEPT !.parsable = FALSE]
\* the file after saveCheckpoint(cp) on the file f, lines 237-245: written; or, when
\* writeFileSync throws, as it was or truncated, and the error is only logged
WriteFile(f, cp) ==
  IF diskFaults THEN {SaveCheckpoint(cp), f, Truncated(cp)} ELSE {SaveCheckpoint(cp)}

\* CheckpointManager.loadCheckpoint, utils/checkpoint.js:28-42: the parsed object, or
\* null when the file is missing or does not parse. Of the object the manager reads
\* org and timestamp (shouldResumeFromCheckpoint).
NullCheckpoint == [present |-> FALSE, org |-> NoOrg, timestamp |-> -1]
ManagerLoadCheckpoint(f) ==
  IF ~f.exists \/ ~f.parsable THEN NullCheckpoint
  ELSE [present |-> TRUE, org |-> f.data.org, timestamp |-> f.data.timestamp]

\* cp.repos?.endCursor || null and cp.repos?.count || 0, lines 254-255
StartCursorOf(cp, o) == IF cp.hasRepos /\ cp.endCursor # Null THEN cp.endCursor ELSE Null
StartCountOf(cp, o) == IF cp.hasRepos /\ cp.count # 0 THEN cp.count ELSE 0
\* checkpoint.issues?.[repo.name]?.endCursor || null and ...count || 0, lines 347-348
IssueStartCursorOf(cp, r) == IF cp.issues[r].set THEN cp.issues[r].endCursor ELSE Null
IssueStartCountOf(cp, r) == IF cp.issues[r].set THEN cp.issues[r].count ELSE 0

\* the record of line 331
RepoCheckpointPageCount(o, c, n, p) ==
  [EmptyCp EXCEPT !.org = o, !.hasRepos = TRUE, !.endCursor = c,
                  !.count = n - rFetched, !.lastPage = p]
RepoCheckpointMerged(o, c, n, p) ==
  [LoadCheckpoint(ckptFile) EXCEPT !.org = o, !.hasRepos = TRUE, !.endCursor = c,
                                   !.count = n, !.lastPage = p]
RepoCheckpoint(o, c, n, p) ==
  [EmptyCp EXCEPT !.org = o, !.hasRepos = TRUE, !.endCursor = c, !.count = n, !.lastPage = p]
\* the record of lines 416-419
IssueCheckpointFromStaleCopy(cp, r, c, n) ==
  [fcp EXCEPT !.issues[r] = [set |-> TRUE, endCursor |-> c, count |-> n]]
IssueCheckpoint(cp, r, c, n) ==
  [cp EXCEPT !.issues[r] = [set |-> TRUE, endCursor |-> c, count |-> n]]
\* the record of line 456
ProgressCheckpoint(cp, bn, tb) == [cp EXCEPT !.batchesCompleted = bn, !.totalBatches = tb]

\* what handleFetchAction's catch and finally do to the file, lines 489-495: nothing
CkptAfterFailureUnlinked(f) == NoFile
CkptAfterFailure(f) == f

\* ============================================================ handleFetchAction
NoLocals == [ipc |-> "none", hasNext |-> TRUE, cursor |-> Null, fetched |-> 0, page |-> 0]

\* the memory of a process that has just started
MemReset ==
  /\ exitCode' = 0
  /\ failure' = "none"
  /\ cpAtStart' = EmptyCp
  /\ staleAtStart' = FALSE
  /\ startCursor' = Null
  /\ startCount' = 0
  /\ ckptAtThrow' = NoFile
  /\ issuesStarted' = FALSE
  /\ rHasNext' = TRUE /\ rCursor' = Null /\ rFetched' = 0 /\ rPage' = 0
  /\ fcp' = EmptyCp /\ repos' = <<>> /\ totalFetched' = 0
  /\ tl' = [t \in RepoNames |-> NoLocals]
  /\ limit' = CONCURRENT_REPOS
  /\ running' = 0 /\ queue' = <<>> /\ timers' = 0
  /\ tstate' = [t \in RepoNames |-> "new"]
  /\ admittedAt' = [t \in RepoNames |-> -1]
  /\ tdelay' = [t \in RepoNames |-> FALSE]
  /\ nItems' = 0 /\ batchSize' = 5 /\ bpc' = "idle" /\ bi' = 0
  /\ results' = <<>> /\ errors' = <<>> /\ progressCalls' = <<>> /\ batchCalls' = <<>>

FetchInit ==
  /\ ckptFile = NoFile
  /\ repoStore = {}
  /\ issueStore = {}
  /\ now = 0
  /\ runs = 0
  /\ hpc = "idle"
  /\ org = NoOrg
  /\ exitCode = 0
  /\ failure = "none"
  /\ cpAtStart = EmptyCp
  /\ staleAtStart = FALSE
  /\ startCursor = Null
  /\ startCount = 0
  /\ ckptAtThrow = NoFile
  /\ issuesStarted = FALSE
  /\ rHasNext = TRUE /\ rCursor = Null /\ rFetched = 0 /\ rPage = 0
  /\ fcp = EmptyCp /\ repos = <<>> /\ totalFetched = 0
  /\ tl = [t \in RepoNames |-> NoLocals]

\* `orgpulse fetch <o>` is invoked: a new process, gap ms after the last one ended
Invoke(o, gap) ==
  /\ hpc \in {"idle", "done", "killed"}
  /\ org' = o
  /\ now' = now + gap
  /\ runs' = runs + 1
  /\ hpc' = "connect"
  /\ MemReset
  /\ UNCHANGED <<ckptFile, repoStore, issueStore>>

\* the command is run for any organization, at once or more than an hour later
StartRun ==
  /\ runs < MaxRuns
  /\ \E o \in Orgs, gap \in {0, FRESH_MS + 1} : Invoke(o, gap)

\* the command is run again for the organization it was first run for
StartRunSameOrg ==
  /\ runs < MaxResumeRuns
  /\ \E o \in Orgs : (org = NoOrg \/ org = o) /\ OrgExists(o) /\ Invoke(o, 0)

\* where handleFetchAction goes when its try block or its catch block is left, lines
\* 494-496: the finally block calls closeConnection and awaits it
FinallySkipped == "done"
Finally == "closing"

\* an error reaches the catch of handleFetchAction, lines 489-494
Throw(kind) ==
  /\ failure' = kind
  /\ exitCode' = 1
  /\ ckptAtThrow' = ckptFile
  /\ ckptFile' = CkptAfterFailure(ckptFile)
  /\ hpc' = Finally

\* connectToMongo resolves, lines 476-482; fetchRepositories runs to its first request,
\* lines 247-287
ConnectDone ==
  /\ hpc = "connect"
  /\ cpAtStart' = LoadCheckpoint(ckptFile)
  /\ staleAtStart' = (ckptFile.exists /\ now - LoadCheckpoint(ckptFile).timestamp > FRESH_MS)
  /\ rHasNext' = TRUE
  /\ rCursor' = StartCursorOf(LoadCheckpoint(ckptFile), org)
  /\ rFetched' = StartCountOf(LoadCheckpoint(ckptFile), org)
  /\ startCursor' = rCursor'
  /\ startCount' = rFetched'
  /\ rPage' = 1
  /\ hpc' = "repoRequest"
  /\ UNCHANGED <<diskVars, org, exitCode, failure, ckptAtThrow, issuesStarted, issueVars, limVars,
                 batchVars>>

\* MONGO_URI is missing or connectToMongo rejects, lines 473-476
ConnectFails ==
  /\ hpc = "connect"
  /\ Throw("connect")
  /\ UNCHANGED <<repoStore, issueStore, now, runs, org, cpAtStart, staleAtStart,
                 startCursor, startCount, issuesStarted, repoVars, issueVars, limVars, batchVars>>

\* lines 327-333 for a page of which n repositories were kept
RepoFetchedAfterLastPageOnly(f, n) == n
RepoFetchedAfter(f, n) == f + n
RepoAfterPage(n) ==
  /\ rFetched' = RepoFetchedAfter(rFetched, n)
  /\ rHasNext' = PageHasNext(RepoCount(org), rCursor, RepoPageSize)
  /\ rCursor' = PageEndCursor(RepoCount(org), rCursor, RepoPageSize)
  /\ ckptFile' \in WriteFile(ckptFile, RepoCheckpoint(org, rCursor', rFetched', rPage))
  /\ hpc' = "repoSleep"
  /\ UNCHANGED <<rPage, now, runs, org, exitCode, failure, cpAtStart, staleAtStart,
                 startCursor, startCount, ckptAtThrow, issuesStarted, issueVars, limVars, batchVars>>

\* graphqlWithRetry returns the page, lines 287-325: a page with nodes goes to bulkWrite
RepoRequestReturns ==
  /\ hpc = "repoRequest"
  /\ OrgExists(org)
  /\ IF PageNodes(RepoCount(org), rCursor, RepoPageSize) # {}
     THEN /\ hpc' = "repoBulkWrite"
          /\ UNCHANGED <<diskVars, org, exitCode, failure, cpAtStart, staleAtStart, startCursor,
                         startCount, ckptAtThrow, issuesStarted, repoVars, issueVars, limVars, batchVars>>
     ELSE RepoAfterPage(0) /\ UNCHANGED <<repoStore, issueStore>>

\* res.organization is null, line 288
RepoOrgNotFound ==
  /\ hpc = "repoRequest"
  /\ ~OrgExists(org)
  /\ Throw("orgNotFound")
  /\ UNCHANGED <<repoStore, issueStore, now, runs, org, cpAtStart, staleAtStart,
                 startCursor, startCount, issuesStarted, repoVars, issueVars, limVars, batchVars>>

\* graphqlWithRetry throws (a fatal error, or retries exhausted), line 287
RepoRequestThrows ==
  /\ hpc = "repoRequest"
  /\ Throw("api")
  /\ UNCHANGED <<repoStore, issueStore, now, runs, org, cpAtStart, staleAtStart,
                 startCursor, startCount, issuesStarted, repoVars, issueVars, limVars, batchVars>>

\* repoCol.bulkWrite resolves, lines 324-333
RepoBulkWriteDone ==
  /\ hpc = "repoBulkWrite"
  /\ repoStore' = repoStore \cup
       {<<org, k>> : k \in PageNodes(RepoCount(org), rCursor, RepoPageSize)}
  /\ RepoAfterPage(Cardinality(PageNodes(RepoCount(org), rCursor, RepoPageSize)))
  /\ UNCHANGED issueStore

\* the failing bulkWrite is caught, logged and the loop goes on (not what line 324 does)
RepoBulkWriteFailsSwallowed ==
  /\ hpc = "repoBulkWrite"
  /\ RepoAfterPage(Cardinality(PageNodes(RepoCount(org), rCursor, RepoPageSize)))
  /\ UNCHANGED <<repoStore, issueStore>>
\* repoCol.bulkWrite rejects, line 324: the error leaves fetchRepositories
RepoBulkWriteFails ==
  /\ hpc = "repoBulkWrite"
  /\ Throw("bulkWrite")
  /\ UNCHANGED <<repoStore, issueStore, now, runs, org, cpAtStart, staleAtStart,
                 startCursor, startCount, issuesStarted, repoVars, issueVars, limVars, batchVars>>

\* sleep(200) ends, lines 333, 262-287 and 336-337, 484-485, 432-438: the next page is
\* requested, or fetchRepositories returns and fetchIssues runs to its find()
RepoSleepEnds ==
  /\ hpc = "repoSleep"
  /\ IF rHasNext
     THEN /\ rPage' = rPage + 1
          /\ hpc' = "repoRequest"
          /\ UNCHANGED <<fcp, issuesStarted>>
     ELSE /\ fcp' = LoadCheckpoint(ckptFile)
          /\ issuesStarted' = TRUE
          /\ hpc' = "issuesFind"
          /\ UNCHANGED <<rPage>>
  /\ UNCHANGED <<diskVars, org, exitCode, failure, cpAtStart, staleAtStart, startCursor,
                 startCount, ckptAtThrow, rHasNext, rCursor, rFetched, repos, totalFetched, tl,
                 limVars, batchVars>>

\* ================================================================== fetchIssues
\* the order of { stars: -1, forks: -1 }, line 438: a is not after b
PrecedesAscending(o, a, b) ==
  Stars(o, a) < Stars(o, b) \/ (Stars(o, a) = Stars(o, b) /\ Forks(o, a) <= Forks(o, b))
Precedes(o, a, b) ==
  Stars(o, a) > Stars(o, b) \/ (Stars(o, a) = Stars(o, b) /\ Forks(o, a) >= Forks(o, b))
RECURSIVE SortDesc(_, _)
\* .sort({ stars: -1, forks: -1 }), line 438: the names of S by stars, highest first,
\* and among equal stars by forks, highest first
SortDesc(o, S) ==
  IF S = {} THEN <<>>
  ELSE LET top == CHOOSE r \in S : \A q \in S : Precedes(o, r, q)
       IN <<top>> \o SortDesc(o, S \ {top})
FoundRepos(o) == SortDesc(o, {r \in RepoNames : <<o, r>> \in repoStore})

\* fetchRepoIssues up to its first request, lines 341-370
IssueLocalsInit(cp, r) ==
  [ipc |-> "request", hasNext |-> TRUE, cursor |-> IssueStartCursorOf(cp, r),
   fetched |-> IssueStartCountOf(cp, r), page |-> 1]

\* handleFetchAction after fetchIssues returned, lines 487-494
FetchSucceeded ==
  /\ ckptFile' = NoFile
  /\ hpc' = Finally

\* find() resolves, lines 438-463: with no repositories fetchIssues returns 0; otherwise
\* the processor is made and processItems submits the first batch
IssuesFindReturns ==
  /\ hpc = "issuesFind"
  /\ IF Len(FoundRepos(org)) = 0
     THEN /\ FetchSucceeded
          /\ UNCHANGED <<repos, tl, limVars, batchVars>>
     ELSE /\ repos' = FoundRepos(org)
          /\ tl' = [t \in RepoNames |->
                      IF t <= Len(FoundRepos(org))
                      THEN IssueLocalsInit(fcp, FoundRepos(org)[t]) ELSE NoLocals]
          /\ nItems' = Len(FoundRepos(org))
          /\ batchSize' = Min(IssueBatchSize, Len(FoundRepos(org)))
          /\ bpc' = "awaitBatch"
          /\ LimSet(SubmitBatch(LimNow, 0, Min(IssueBatchSize, Len(FoundRepos(org))), Len(FoundRepos(org))))
          /\ hpc' = "issues"
          /\ UNCHANGED <<ckptFile, limit, bi, results, errors, progressCalls, batchCalls>>
  /\ UNCHANGED <<repoStore, issueStore, now, runs, org, exitCode, failure, cpAtStart,
                 staleAtStart, startCursor, startCount, ckptAtThrow, issuesStarted, repoVars, fcp, totalFetched>>

\* find() rejects, line 438
IssuesFindThrows ==
  /\ hpc = "issuesFind"
  /\ Throw("find")
  /\ UNCHANGED <<repoStore, issueStore, now, runs, org, cpAtStart, staleAtStart,
                 startCursor, startCount, issuesStarted, repoVars, issueVars, limVars, batchVars>>

RECURSIVE SumFetched(_, _, _, _)
\* onProgress, lines 448-450, over the batch: the results of the fulfilled items k..hi
SumFetched(s, locals, k, hi) ==
  IF k > hi THEN 0
  ELSE (IF s.tstate[k] = "resolved" THEN locals[k].fetched ELSE 0)
       + SumFetched(s, locals, k + 1, hi)

\* the promise of task t settles; with the last of the batch, lines 95-119 run with the
\* callbacks of lines 448-457. f is the checkpoint file as the task left it.
TaskSettles(t, outcome, locals, f) ==
  /\ LimSet(Settle(LimNow, t, outcome))
  /\ tl' = locals
  /\ AfterBatch(Settle(LimNow, t, outcome))
  /\ IF bpc = "awaitBatch" /\ BatchSettled(Settle(LimNow, t, outcome), bi, batchSize, nItems)
     THEN /\ totalFetched' = totalFetched
               + SumFetched(Settle(LimNow, t, outcome), locals, BatchLo(bi),
                            BatchHi(bi, batchSize, nItems))
          /\ ckptFile' \in WriteFile(f, ProgressCheckpoint(LoadCheckpoint(f),
                            BatchNumber(bi, batchSize), TotalBatches(batchSize, nItems)))
     ELSE /\ totalFetched' = totalFetched
          /\ ckptFile' = f
  /\ UNCHANGED <<limit, now, runs, runVars, repoVars, fcp, repos>>

\* lines 410-423 for a page of which n issues were kept: the counters, the checkpoint
\* write, and the break, the sleep or the end of the loop
IssueAfterPage(t, n) ==
  LET L == tl[t]
      r == repos[t]
      more == PageHasNext(IssueCount(org, r), L.cursor, IssuePageSize) /\ n > 0
      cur == PageEndCursor(IssueCount(org, r), L.cursor, IssuePageSize)
      L2 == [L EXCEPT !.fetched = @ + n, !.hasNext = more, !.cursor = cur]
      fs == IF L.page % 2 = 0 \/ ~more
            THEN WriteFile(ckptFile,
                           IssueCheckpoint(LoadCheckpoint(ckptFile), r, cur, L2.fetched))
            ELSE {ckptFile}
  IN \E f \in fs :
       IF n = 0 \/ ~more
       THEN TaskSettles(t, "resolved", [tl EXCEPT ![t] = [L2 EXCEPT !.ipc = "returned"]], f)
       ELSE /\ tl' = [tl EXCEPT ![t] = [L2 EXCEPT !.ipc = "sleep"]]
            /\ ckptFile' = f
            /\ UNCHANGED <<limVars, batchVars, now, runs, runVars, repoVars, fcp, repos,
                           totalFetched>>

\* graphqlWithRetry returns a page of issues, lines 370-387
IssueRequestReturns ==
  /\ hpc = "issues"
  /\ \E t \in 1..nItems :
       /\ tstate[t] = "running" /\ tl[t].ipc = "request"
       /\ IF PageNodes(IssueCount(org, repos[t]), tl[t].cursor, IssuePageSize) # {}
          THEN /\ tl' = [tl EXCEPT ![t].ipc = "bulkWrite"]
               /\ UNCHANGED <<limVars, batchVars, diskVars, runVars, repoVars, fcp, repos,
                              totalFetched>>
          ELSE IssueAfterPage(t, 0) /\ UNCHANGED <<repoStore, issueStore>>

\* how fetchRepoIssues ends when res.repository is null, lines 375-378: break, then return
NotAccessibleRejects == "rejected"
NotAccessibleSettles == "resolved"

\* res.repository is null, lines 375-378 and 425-429: the loop breaks, fetched is returned
IssueRepoNotAccessible ==
  /\ hpc = "issues"
  /\ \E t \in 1..nItems :
       /\ tstate[t] = "running" /\ tl[t].ipc = "request"
       /\ TaskSettles(t, NotAccessibleSettles, [tl EXCEPT ![t].ipc = "returned"], ckptFile)
  /\ UNCHANGED <<repoStore, issueStore>>

\* graphqlWithRetry throws inside fetchRepoIssues, line 370: the task's promise rejects
IssueRequestThrows ==
  /\ hpc = "issues"
  /\ \E t \in 1..nItems :
       /\ tstate[t] = "running" /\ tl[t].ipc = "request"
       /\ TaskSettles(t, "rejected", [tl EXCEPT ![t].ipc = "thrown"], ckptFile)
  /\ UNCHANGED <<repoStore, issueStore>>

\* issueCol.bulkWrite resolves, lines 407-423
IssueBulkWriteDone ==
  /\ hpc = "issues"
  /\ \E t \in 1..nItems :
       /\ tstate[t] = "running" /\ tl[t].ipc = "bulkWrite"
       /\ issueStore' = issueStore \cup
            {<<org, repos[t], k>> :
               k \in PageNodes(IssueCount(org, repos[t]), tl[t].cursor, IssuePageSize)}
       /\ IssueAfterPage(t, Cardinality(PageNodes(IssueCount(org, repos[t]), tl[t].cursor,
                                                  IssuePageSize)))
  /\ UNCHANGED repoStore

\* issueCol.bulkWrite rejects, line 407: the task's promise rejects
IssueBulkWriteFails ==
  /\ hpc = "issues"
  /\ \E t \in 1..nItems :
       /\ tstate[t] = "running" /\ tl[t].ipc = "bulkWrite"
       /\ TaskSettles(t, "rejected", [tl EXCEPT ![t].ipc = "thrown"], ckptFile)
  /\ UNCHANGED <<repoStore, issueStore>>

\* the loop condition of fetchRepoIssues, line 352
IssueLoopContinuesUncapped(L) == L.hasNext
IssueLoopContinues(L) == L.hasNext /\ L.page < maxPages

\* sleep(150) ends, lines 422, 352-370 and 425-429: the next page is requested, or the
\* page cap ends the loop
IssueSleepEnds ==
  /\ hpc = "issues"
  /\ \E t \in 1..nItems :
       /\ tstate[t] = "running" /\ tl[t].ipc = "sleep"
       /\ IF IssueLoopContinues(tl[t])
          THEN /\ tl' = [tl EXCEPT ![t].page = @ + 1, ![t].ipc = "request"]
               /\ UNCHANGED <<limVars, batchVars, diskVars, runVars, repoVars, fcp, repos,
                              totalFetched>>
          ELSE /\ TaskSettles(t, "resolved", [tl EXCEPT ![t].ipc = "returned"], ckptFile)
               /\ UNCHANGED <<repoStore, issueStore>>

\* the timer of line 89 fires in a task of fetchIssues: fetchRepoIssues is called
IssueTaskDelayEnds ==
  /\ hpc = "issues"
  /\ LimTaskDelayEnds
  /\ UNCHANGED <<batchVars, fetchVars>>

\* the inter-batch sleep of processItems ends, lines 116-119 and 81-94: the next batch
\* of repositories is submitted
IssueBatchDelayEnds ==
  /\ hpc = "issues"
  /\ BatchDelayEnds
  /\ UNCHANGED fetchVars

\* a delayed process() call of the processor's limiter runs
IssueTimerFires ==
  /\ hpc \notin {"idle", "killed"}
  /\ LimTimerFires
  /\ UNCHANGED <<batchVars, fetchVars>>

\* waitForCompletion returns, lines 122-129, 465-466 and 487-494: processItems and
\* fetchIssues return and handleFetchAction removes the checkpoint file
IssuesReturn ==
  /\ hpc = "issues"
  /\ WaitForCompletionReturns
  /\ FetchSucceeded
  /\ UNCHANGED <<repoStore, issueStore, now, runs, org, exitCode, failure, cpAtStart,
                 staleAtStart, startCursor, startCount, ckptAtThrow, issuesStarted, repoVars, issueVars>>

\* closeConnection resolves, line 494: handleFetchAction returns
CloseDone ==
  /\ hpc = "closing"
  /\ hpc' = "done"
  /\ UNCHANGED <<diskVars, org, exitCode, failure, cpAtStart, staleAtStart, startCursor,
                 startCount, ckptAtThrow, issuesStarted, repoVars, issueVars, limVars, batchVars>>

\* the process is terminated while it awaits something: its memory is gone, the
\* checkpoint file and the store stay
Kill ==
  /\ hpc \in {"connect", "repoRequest", "repoBulkWrite", "repoSleep", "issuesFind", "issues",
              "closing"}
  /\ hpc' = "killed"
  /\ MemReset
  /\ UNCHANGED <<diskVars, org>>

\* ================================================== upserts into one collection
NoDate == -1           \* a field the document does not have
Keys == 1..MaxKeys     \* {org, name} of a repository, {repo, number} of an issue
Vals == {"v1", "v2"}   \* the values of the other fields the caller passes
Items == [key : Keys, val : Vals]
\* what a call is given: one document (RepoModel.upsert) or a list of at most two
ItemLists == {<<i>> : i \in Items} \cup {<<i, j>> : i \in Items, j \in Items}
UpsertOps == {"fetchRepositories", "fetchRepoIssues", "RepoModel.upsert", "IssueModel.bulkUpsert"}

\* the first document the filter matches, 0 if none
FindOne(c, k) ==
  IF \E i \in 1..Len(c) : c[i].key = k
  THEN CHOOSE i \in 1..Len(c) : c[i].key = k /\ \A j \in 1..(i - 1) : c[j].key # k
  ELSE 0

\* updateOne(filter, { $set: item }, { upsert: true }), part_000:298-321 and 389-404,
\* model.js:115
UpdateOneSet(c, item) ==
  IF FindOne(c, item.key) = 0
  THEN Append(c, [key |-> item.key, val |-> item.val, createdAt |-> NoDate, updatedAt |-> NoDate])
  ELSE [c EXCEPT ![FindOne(c, item.key)].val = item.val]

RECURSIVE BulkWrite(_, _)
\* bulkWrite(ops), part_000:324 and 407, model.js:117: the operations in order
BulkWrite(c, items) ==
  IF items = <<>> THEN c ELSE BulkWrite(UpdateOneSet(c, Head(items)), Tail(items))

\* RepoModel.upsert, model.js:66-73: $set { ...repoDoc, updatedAt: new Date() } and
\* $setOnInsert { createdAt: new Date() }
RepoModelUpsert(c, item, t) ==
  IF FindOne(c, item.key) = 0
  THEN Append(c, [key |-> item.key, val |-> item.val, createdAt |-> t, updatedAt |-> t])
  ELSE [c EXCEPT ![FindOne(c, item.key)].val = item.val,
                 ![FindOne(c, item.key)].updatedAt = t]

RECURSIVE BulkUpsert(_, _, _)
\* IssueModel.bulkUpsert, model.js:107-122: one bulkWrite per slice of batchSize issues
BulkUpsert(c, issues, size) ==
  IF issues = <<>> THEN c
  ELSE BulkUpsert(BulkWrite(c, SubSeq(issues, 1, Min(size, Len(issues)))),
                  SubSeq(issues, Min(size, Len(issues)) + 1, Len(issues)), size)

\* the collection after the function uOp persisted items at time t
Persist(op, c, items, t) ==
  CASE op = "RepoModel.upsert" -> RepoModelUpsert(c, items[1], t)
    [] op = "IssueModel.bulkUpsert" -> BulkUpsert(c, items, UpsertBatchSize)
    [] OTHER -> BulkWrite(c, items)

UpsertInit ==
  /\ coll = <<>>
  /\ date = 0
  /\ persisted = <<>>
  /\ afterFirst = <<>>
  /\ persists = 0
  /\ calls = 0
UpsertIdle == uOp = "fetchRepositories" /\ UpsertInit

\* the function is called with a page of documents
UpsertCalled ==
  /\ calls < MaxPersists
  /\ \E items \in ItemLists :
       /\ uOp = "RepoModel.upsert" => Len(items) = 1
       /\ coll' = Persist(uOp, coll, items, date)
       /\ persisted' = items
       /\ afterFirst' = coll'
  /\ persists' = 1
  /\ calls' = calls + 1
  /\ UNCHANGED <<uOp, date>>

\* the function is called again with the documents of its last call
UpsertCalledAgain ==
  /\ calls < MaxPersists
  /\ persists >= 1
  /\ coll' = Persist(uOp, coll, persisted, date)
  /\ persists' = persists + 1
  /\ calls' = calls + 1
  /\ UNCHANGED <<uOp, date, persisted, afterFirst>>

\* time passes
DateAdvances ==
  /\ date < MaxDate
  /\ date' = date + 1
  /\ UNCHANGED <<uOp, coll, persisted, afterFirst, persists, calls>>

\* ======================================= CheckpointManager.shouldResumeFromCheckpoint
NoTimestamp == -1      \* an object without a timestamp field
ManagerOrgs == {"a", "b", NoOrg}
ManagerNows == {ONE_HOUR_MS + k : k \in 0..MaxSkew}
ManagerTimestamps == 0..(MaxSkew + 1) \cup {ONE_HOUR_MS + MaxSkew} \cup {NoTimestamp}
ManagerCheckpoints ==
  {NullCheckpoint} \cup [present : {TRUE}, org : ManagerOrgs, timestamp : ManagerTimestamps]

\* shouldResumeFromCheckpoint, utils/checkpoint.js:56-64; undefined > n is false
ShouldResumeInclusive(cp, o, t) ==
  IF ~cp.present \/ cp.org # o THEN FALSE
  ELSE cp.timestamp # NoTimestamp /\ cp.timestamp >= t - ONE_HOUR_MS
ShouldResumeFromCheckpoint(cp, o, t) ==
  IF ~cp.present \/ cp.org # o THEN FALSE
  ELSE cp.timestamp # NoTimestamp /\ cp.timestamp > t - ONE_HOUR_MS

DecideIdle ==
  /\ mCheckpoint = NullCheckpoint /\ mOrg = NoOrg /\ mNow = ONE_HOUR_MS
  /\ mpc = "call" /\ mResult = FALSE

\* the call, lines 56-64
ShouldResumeCalled ==
  /\ mpc = "call"
  /\ mResult' = ShouldResumeFromCheckpoint(mCheckpoint, mOrg, mNow)
  /\ mpc' = "returned"
  /\ UNCHANGED <<mCheckpoint, mOrg, mNow>>

\* ============================ makeRequestWithRetry and requestWithRetry side by side
PairImpls == {"makeRequest", "rest"}
\* the error responses of a script: a status, with or without x-ratelimit-remaining: 0
ScriptErrors == [status : {403, 404, 429, 500}, remaining : {Absent, "0"}, reset : {NoReset}]
RECURSIVE SeqsUpTo(_, _)
SeqsUpTo(S, n) ==
  IF n = 0 THEN {<<>>}
  ELSE SeqsUpTo(S, n - 1) \cup {Append(q, e) : q \in SeqsUpTo(S, n - 1), e \in S}
Scripts == SeqsUpTo(ScriptErrors, MaxScript)

PairInit ==
  /\ pairPos = [i \in PairImpls |-> 1]
  /\ pairRetry = [i \in PairImpls |-> 0]
  /\ pairWaits = [i \in PairImpls |-> <<>>]
  /\ pairOut = [i \in PairImpls |-> "running"]
  /\ pairErr = [i \in PairImpls |-> NoErr]
PairIdle == script = <<>> /\ PairInit

\* requestFn() / octokit.request resolves: the function returns (api.js:57-58,
\* part_000:203-206)
PairAttemptSucceeds ==
  \E i \in PairImpls :
    /\ pairOut[i] = "running"
    /\ pairPos[i] > Len(script)
    /\ pairPos' = [pairPos EXCEPT ![i] = @ + 1]
    /\ pairOut' = [pairOut EXCEPT ![i] = "returned"]
    /\ UNCHANGED <<script, pairRetry, pairWaits, pairErr>>

\* the attempt fails with the next error of the script: the catch block with its wait
\* and the recursive call, or its throw (api.js:59-75, part_000:207-219)
PairAttemptFails ==
  \E i \in PairImpls :
    /\ pairOut[i] = "running"
    /\ pairPos[i] <= Len(script)
    /\ pairPos' = [pairPos EXCEPT ![i] = @ + 1]
    /\ LET e == script[pairPos[i]]
       IN IF IsRateLimited(i, e)
          THEN /\ pairWaits' = [pairWaits EXCEPT ![i] = Append(@, "rate-limit")]
               /\ pairRetry' = [pairRetry EXCEPT ![i] = RetryAfterRateLimit(@)]
               /\ UNCHANGED <<pairOut, pairErr>>
          ELSE IF MayBackoff(i, e, pairRetry[i])
          THEN /\ pairWaits' = [pairWaits EXCEPT ![i] = Append(@, "backoff")]
               /\ pairRetry' = [pairRetry EXCEPT ![i] = @ + 1]
               /\ UNCHANGED <<pairOut, pairErr>>
          ELSE /\ pairOut' = [pairOut EXCEPT ![i] = "thrown"]
               /\ pairErr' = [pairErr EXCEPT ![i] = e]
               /\ UNCHANGED <<pairRetry, pairWaits>>
    /\ UNCHANGED script

\* ======================================= the since filter (part_000:247-338, 341-430)
NoSince == -1             \* since is undefined: the option was not given
SincePageSize == 2        \* items per page; stands for first: 100 (line 269) and first: 30 (357)
MaxNodes == 4             \* nodes of the largest connection whose dates come in any order
MaxSinceDate == 3         \* latest date of a node of such a connection
Dates == 1..MaxSinceDate
SinceFns == {"fetchRepositories", "fetchRepoIssues"}
\* the connection whose n nodes have the dates n, n-1, ..., 1: strictly newest first
Newest(n) == [k \in 1..n |-> n + 1 - k]
\* one node more than the page cap of fetchRepoIssues lets through, and one page more
LongNodes == maxPages * SincePageSize + 1
NodeLists == SeqsUpTo(Dates, MaxNodes) \cup {Newest(n) : n \in (MaxNodes + 1)..(LongNodes + 1)}
Sinces == {NoSince} \cup 1..(MaxSinceDate + 1) \cup {LongNodes - 3, LongNodes - 4}
SinceStarts == {Null, 1}

\* the filter of lines 293 and 383: new Date(d) >= new Date(since)
KeptUnfiltered(d, s) == TRUE
Kept(d, s) == s = NoSince \/ d >= s
\* the nodes of the page after cursor c that the filter keeps, lines 290-295 and 380-385
KeptNodes(nodes, c, s) ==
  {k \in PageNodes(Len(nodes), c, SincePageSize) : Kept(nodes[k], s)}

\* the break of line 421 after a page of which n issues were kept
SinceBreakOnFullPage(n, s) == n = 0 \/ (s # NoSince /\ n <= SincePageSize)
SinceBreak(n, s) == n = 0 \/ (s # NoSince /\ n < SincePageSize)

SinceInit ==
  /\ sPc = "request"
  /\ sStore = {}
  /\ sCkpt = NoEntry
  /\ sKept = <<>>
SinceIdle ==
  /\ sFn = "fetchRepositories" /\ since = NoSince /\ sNodes = <<>>
  /\ sLoc = [hasNext |-> TRUE, cursor |-> Null, fetched |-> 0, page |-> 1,
             start |-> Null, startCount |-> 0]
  /\ SinceInit

\* lines 327-333 (fetchRepositories) and 410-423 (fetchRepoIssues) for a page of which n
\* items were kept
SinceAfterPage(n) ==
  LET more == PageHasNext(Len(sNodes), sLoc.cursor, SincePageSize)
      cur == PageEndCursor(Len(sNodes), sLoc.cursor, SincePageSize)
      entry == [set |-> TRUE, endCursor |-> cur, count |-> sLoc.fetched + n]
  IN /\ sKept' = Append(sKept, n)
     /\ IF sFn = "fetchRepositories"
        THEN /\ sLoc' = [sLoc EXCEPT !.fetched = @ + n, !.hasNext = more, !.cursor = cur]
             /\ sCkpt' = entry
             /\ sPc' = "sleep"
        ELSE /\ sLoc' = [sLoc EXCEPT !.fetched = @ + n, !.hasNext = more /\ n > 0,
                                     !.cursor = cur]
             /\ sCkpt' = IF sLoc.page % 2 = 0 \/ ~(more /\ n > 0) THEN entry ELSE sCkpt
             /\ sPc' = IF SinceBreak(n, since) \/ ~(more /\ n > 0) THEN "returned" ELSE "sleep"
     /\ UNCHANGED <<sFn, since, sNodes>>

\* graphqlWithRetry returns the page, lines 287-297 and 370-387: the page is filtered,
\* and what is kept goes to bulkWrite
SinceRequestReturns ==
  /\ sPc = "request"
  /\ IF KeptNodes(sNodes, sLoc.cursor, since) # {}
     THEN /\ sPc' = "bulkWrite"
          /\ UNCHANGED <<sFn, since, sNodes, sLoc, sStore, sCkpt, sKept>>
     ELSE SinceAfterPage(0) /\ UNCHANGED sStore

\* bulkWrite resolves, lines 324-333 and 407-423
SinceBulkWriteDone ==
  /\ sPc = "bulkWrite"
  /\ sStore' = sStore \cup KeptNodes(sNodes, sLoc.cursor, since)
  /\ SinceAfterPage(Cardinality(KeptNodes(sNodes, sLoc.cursor, since)))

\* graphqlWithRetry or bulkWrite rejects, lines 287, 324, 370, 407: the call throws
SinceThrows ==
  /\ sPc \in {"request", "bulkWrite"}
  /\ sPc' = "thrown"
  /\ UNCHANGED <<sFn, since, sNodes, sLoc, sStore, sCkpt, sKept>>

\* the sleep ends, lines 333 and 262 (fetchRepositories), 422 and 352 (fetchRepoIssues):
\* the next page is requested, or the loop ends and fetched is returned
SinceSleepEnds ==
  /\ sPc = "sleep"
  /\ IF sLoc.hasNext /\ (sFn = "fetchRepositories" \/ sLoc.page < maxPages)
     THEN sPc' = "request" /\ sLoc' = [sLoc EXCEPT !.page = @ + 1]
     ELSE sPc' = "returned" /\ UNCHANGED sLoc
  /\ UNCHANGED <<sFn, since, sNodes, sStore, sCkpt, sKept>>

\* ======================================== GitHubAPI.fetchOrgRepos (api.js:89-151)
RestPageSize == 2         \* repositories per page; stands for per_page: 100 (line 105)
MaxStartPage == 2         \* latest startPage given
RestStarts == 1..MaxStartPage

\* GET /orgs/{org}/repos with per_page and page, lines 103-110: the positions of the
\* repositories of page p. The endpoint has no since parameter, so the one line 109
\* sends does not change the answer.
RestPage(list, p) ==
  {k \in 1..Len(list) : (p - 1) * RestPageSize < k /\ k <= p * RestPageSize}
\* the filter of lines 121-127, over the page in the order of the response
RECURSIVE FilterFrom(_, _, _, _)
FilterFrom(list, k, hi, s) ==
  IF k > hi THEN <<>>
  ELSE (IF Kept(list[k], s) THEN <<k>> ELSE <<>>) \o FilterFrom(list, k + 1, hi, s)
FilteredRepos(list, p, s) ==
  FilterFrom(list, (p - 1) * RestPageSize + 1, Min(p * RestPageSize, Len(list)), s)

\* hasNextPage after a page of n repositories, line 137
FullPageOrLess(n) == n <= RestPageSize
FullPage(n) == n = RestPageSize

RestInit ==
  /\ oPc = "request"
  /\ oPage = oStart
  /\ oHasNext = TRUE
  /\ oRepos = <<>>
  /\ oRequested = <<>>
RestIdle == oSince = NoSince /\ oStart = 1 /\ oList = <<>> /\ RestInit

\* makeRequestWithRetry returns the page, lines 101-141: an empty page ends the loop
\* and repos is returned; otherwise the filtered page is pushed to repos (totalFetched,
\* which is only logged, is its length) and the call sleeps
OrgReposRequestReturns ==
  /\ oPc = "request"
  /\ oRequested' = Append(oRequested, oPage)
  /\ IF RestPage(oList, oPage) = {}
     THEN /\ oPc' = "returned"
          /\ UNCHANGED <<oPage, oHasNext, oRepos>>
     ELSE /\ oRepos' = oRepos \o FilteredRepos(oList, oPage, oSince)
          /\ oHasNext' = FullPage(Cardinality(RestPage(oList, oPage)))
          /\ oPage' = oPage + 1
          /\ oPc' = "sleep"
  /\ UNCHANGED <<oSince, oStart, oList>>

\* makeRequestWithRetry throws, lines 101 and 143-146: the error is logged and rethrown
OrgReposRequestThrows ==
  /\ oPc = "request"
  /\ oRequested' = Append(oRequested, oPage)
  /\ oPc' = "thrown"
  /\ UNCHANGED <<oSince, oStart, oList, oPage, oHasNext, oRepos>>

\* sleep(100) ends, lines 141, 97 and 149-150: the next page is requested, or repos is
\* returned
OrgReposSleepEnds ==
  /\ oPc = "sleep"
  /\ oPc' = IF oHasNext THEN "request" ELSE "returned"
  /\ UNCHANGED <<oSince, oStart, oList, oPage, oHasNext, oRepos, oRequested>>

\* ============================== the connection module (db/connection.js, model.js:205-293)
MaxConnectCalls == 3      \* connectToMongo calls made from outside
MaxCloseCalls == 2        \* closeConnection calls made from outside
MaxHeartbeats == 1        \* serverHeartbeatFailed events emitted
NullRef == 0              \* null

\* the module as loaded, lines 213-215
ConnInit ==
  /\ mongoClientInstance = NullRef
  /\ databaseInstance = NullRef
  /\ connectionState = "DISCONNECTED"
  /\ pendingConnects = 0
  /\ pendingCloses = [direct |-> 0, reconnect |-> 0]
  /\ reconnectTimers = 0
  /\ listeners = {}
  /\ clientsMade = 0
  /\ connCalls = [connect |-> 0, close |-> 0, heartbeat |-> 0]

\* getDb, lines 283-288: the handle, or NullRef for the error it throws
GetDb == databaseInstance

\* connectToMongo up to its await, lines 239-254: when CONNECTED it returns the handle;
\* otherwise it sets CONNECTING, makes a client and awaits its connect()
ConnectStarts ==
  IF connectionState = "CONNECTED"
  THEN UNCHANGED <<mongoClientInstance, connectionState, pendingConnects, clientsMade>>
  ELSE /\ connectionState' = "CONNECTING"
       /\ mongoClientInstance' = clientsMade + 1
       /\ clientsMade' = clientsMade + 1
       /\ pendingConnects' = pendingConnects + 1

\* connectToMongo is called from outside
ConnectCalled ==
  /\ connCalls.connect < MaxConnectCalls
  /\ connCalls' = [connCalls EXCEPT !.connect = @ + 1]
  /\ ConnectStarts
  /\ UNCHANGED <<databaseInstance, pendingCloses, reconnectTimers, listeners>>

\* connectToMongo is called from outside and JSON.parse(process.env.MONGO_OPTIONS)
\* throws, lines 244-252 and 263-266: the catch sets DISCONNECTED
ConnectOptionsThrow ==
  /\ connCalls.connect < MaxConnectCalls
  /\ connectionState # "CONNECTED"
  /\ connCalls' = [connCalls EXCEPT !.connect = @ + 1]
  /\ connectionState' = "DISCONNECTED"
  /\ UNCHANGED <<mongoClientInstance, databaseInstance, pendingConnects, pendingCloses,
                 reconnectTimers, listeners, clientsMade>>

\* the timer of attemptReconnect fires, line 235: connectToMongo is called
ReconnectTimerFires ==
  /\ reconnectTimers > 0
  /\ reconnectTimers' = reconnectTimers - 1
  /\ ConnectStarts
  /\ UNCHANGED <<databaseInstance, pendingCloses, listeners, connCalls>>

\* what the catch of connectToMongo does to databaseInstance, lines 263-266: nothing
DatabaseAfterCatch(d) == d

\* connect() resolves, lines 254-262: the handle is taken from mongoClientInstance as it
\* is now, the state becomes CONNECTED and the handlers are registered on that client;
\* when mongoClientInstance is null by now, .db throws and the catch sets DISCONNECTED
ConnectResolves ==
  /\ pendingConnects > 0
  /\ pendingConnects' = pendingConnects - 1
  /\ IF mongoClientInstance = NullRef
     THEN /\ connectionState' = "DISCONNECTED"
          /\ databaseInstance' = DatabaseAfterCatch(databaseInstance)
          /\ UNCHANGED listeners
     ELSE /\ databaseInstance' = mongoClientInstance
          /\ connectionState' = "CONNECTED"
          /\ listeners' = listeners \cup {mongoClientInstance}
  /\ UNCHANGED <<mongoClientInstance, pendingCloses, reconnectTimers, clientsMade, connCalls>>

\* connect() rejects, lines 254 and 263-266: the catch sets DISCONNECTED and throws
ConnectRejects ==
  /\ pendingConnects > 0
  /\ pendingConnects' = pendingConnects - 1
  /\ connectionState' = "DISCONNECTED"
  /\ databaseInstance' = DatabaseAfterCatch(databaseInstance)
  /\ UNCHANGED <<mongoClientInstance, pendingCloses, reconnectTimers, listeners, clientsMade,
                 connCalls>>

\* closeConnection is called from outside, lines 268-271: with a client it awaits its
\* close(), without one it returns
CloseCalled ==
  /\ connCalls.close < MaxCloseCalls
  /\ connCalls' = [connCalls EXCEPT !.close = @ + 1]
  /\ pendingCloses' = IF mongoClientInstance # NullRef
                      THEN [pendingCloses EXCEPT !.direct = @ + 1] ELSE pendingCloses
  /\ UNCHANGED <<mongoClientInstance, databaseInstance, connectionState, pendingConnects,
                 reconnectTimers, listeners, clientsMade>>

\* close() resolves, lines 271-275, and for a call made by attemptReconnect line 235:
\* the three variables are reset, and attemptReconnect sets its timer
CloseResolves ==
  /\ \E k \in {"direct", "reconnect"} :
       /\ pendingCloses[k] > 0
       /\ pendingCloses' = [pendingCloses EXCEPT ![k] = @ - 1]
       /\ reconnectTimers' = IF k = "reconnect" THEN reconnectTimers + 1 ELSE reconnectTimers
  /\ mongoClientInstance' = NullRef
  /\ databaseInstance' = NullRef
  /\ connectionState' = "DISCONNECTED"
  /\ UNCHANGED <<pendingConnects, listeners, clientsMade, connCalls>>

\* close() rejects, lines 271 and 277-280: the error is logged and rethrown
CloseRejects ==
  /\ \E k \in {"direct", "reconnect"} :
       /\ pendingCloses[k] > 0
       /\ pendingCloses' = [pendingCloses EXCEPT ![k] = @ - 1]
  /\ UNCHANGED <<mongoClientInstance, databaseInstance, connectionState, pendingConnects,
                 reconnectTimers, listeners, clientsMade, connCalls>>

\* a client emits serverClosed, lines 258 and 226-229: cleanup
ServerClosed ==
  /\ listeners # {}
  /\ connectionState' = "DISCONNECTED"
  /\ databaseInstance' = NullRef
  /\ UNCHANGED <<mongoClientInstance, pendingConnects, pendingCloses, reconnectTimers,
                 listeners, clientsMade, connCalls>>

\* a client emits serverHeartbeatFailed, lines 259 and 231-234: attemptReconnect, which
\* when CONNECTED calls closeConnection and awaits it
ServerHeartbeatFailed ==
  /\ listeners # {}
  /\ connCalls.heartbeat < MaxHeartbeats
  /\ connCalls' = [connCalls EXCEPT !.heartbeat = @ + 1]
  /\ IF connectionState # "CONNECTED"
     THEN UNCHANGED <<pendingCloses, reconnectTimers>>
     ELSE IF mongoClientInstance # NullRef
          THEN /\ pendingCloses' = [pendingCloses EXCEPT !.reconnect = @ + 1]
               /\ UNCHANGED reconnectTimers
          ELSE /\ reconnectTimers' = reconnectTimers + 1
               /\ UNCHANGED pendingCloses
  /\ UNCHANGED <<mongoClientInstance, databaseInstance, connectionState, pendingConnects,
                 listeners, clientsMade>>

\* ============================================================== specifications
LimIdle == limit = CONCURRENT_REPOS /\ LimInit(Tasks)
BatchIdle == nItems = 0 /\ batchSize = 5 /\ BatchInit
RetryIdle == rImpl = "graphql" /\ RetryInit
FetchIdle == FetchInit
ExtIdle == SinceIdle /\ RestIdle /\ ConnInit
UtilIdle == UpsertIdle /\ diskFaults = FALSE /\ DecideIdle /\ PairIdle /\ ExtIdle

InitLimiter ==
  /\ limit \in 1..MaxLimit /\ LimInit(Tasks) /\ BatchIdle /\ RetryIdle /\ FetchIdle
  /\ UtilIdle
NextLimiter ==
  \/ LimAdd /\ UNCHANGED <<batchVars, retryVars, fetchVars, utilVars>>
  \/ LimTaskDelayEnds /\ UNCHANGED <<batchVars, retryVars, fetchVars, utilVars>>
  \/ LimTaskSettles /\ UNCHANGED <<batchVars, retryVars, fetchVars, utilVars>>
  \/ LimTimerFires /\ UNCHANGED <<batchVars, retryVars, fetchVars, utilVars>>
SpecLimiter == InitLimiter /\ [][NextLimiter]_vars
\* the limiter when every task function eventually returns or throws and timers fire;
\* nothing obliges a caller to call add()
LimFairness ==
  /\ WF_vars(LimTaskDelayEnds /\ UNCHANGED <<batchVars, retryVars, fetchVars, utilVars>>)
  /\ WF_vars(LimTaskSettles /\ UNCHANGED <<batchVars, retryVars, fetchVars, utilVars>>)
  /\ WF_vars(LimTimerFires /\ UNCHANGED <<batchVars, retryVars, fetchVars, utilVars>>)
SpecLimiterLive == SpecLimiter /\ LimFairness

\* the limiter under free add() calls and one waitForCompletion() call
NextWait ==
  \/ NextLimiter
  \/ WaitForCompletionCalled /\ UNCHANGED <<retryVars, fetchVars, utilVars>>
  \/ WaitForCompletionReturns /\ UNCHANGED <<retryVars, fetchVars, utilVars>>
SpecWait == InitLimiter /\ [][NextWait]_vars

\* new BatchProcessor(concurrencyLimit, batchSize), lines 65-70, and the item list
InitBatch ==
  /\ nItems \in 0..MaxItems
  /\ batchSize \in 1..5
  /\ limit \in 1..CONCURRENT_REPOS
  /\ LimInit(1..MaxItems)
  /\ BatchInit
  /\ RetryIdle
  /\ FetchIdle
  /\ UtilIdle
NextBatch ==
  \/ ProcessItemsCalled /\ UNCHANGED <<retryVars, fetchVars, utilVars>>
  \/ LimTaskDelayEnds /\ UNCHANGED <<batchVars, retryVars, fetchVars, utilVars>>
  \/ BatchTaskSettles /\ UNCHANGED <<retryVars, fetchVars, utilVars>>
  \/ LimTimerFires /\ UNCHANGED <<batchVars, retryVars, fetchVars, utilVars>>
  \/ BatchDelayEnds /\ UNCHANGED <<retryVars, fetchVars, utilVars>>
  \/ WaitForCompletionReturns /\ UNCHANGED <<retryVars, fetchVars, utilVars>>
SpecBatch == InitBatch /\ [][NextBatch]_vars

\* one request made through one of the four retry loops, begun at any of the times
\* ClockStarts; an attempt takes no time, a sleep takes its duration
ClockStarts == {k * 500 : k \in 0..MaxClockStart}
InitRetry ==
  /\ rImpl \in {"graphql", "rest", "makeRequest", "fetchWithRateLimit"}
  /\ RetryStart /\ clock \in ClockStarts
  /\ LimIdle /\ BatchIdle /\ FetchIdle /\ UtilIdle
NextRetry ==
  \/ AttemptSucceeds /\ UNCHANGED <<limVars, batchVars, fetchVars, utilVars>>
  \/ AttemptFails /\ UNCHANGED <<limVars, batchVars, fetchVars, utilVars>>
  \/ RateLimitWaitEnds /\ UNCHANGED <<limVars, batchVars, fetchVars, utilVars>>
  \/ BackoffEnds /\ UNCHANGED <<limVars, batchVars, fetchVars, utilVars>>
SpecRetry == InitRetry /\ [][NextRetry]_vars

\* the fetch command, run up to MaxRuns times over one checkpoint file and one store.
\* Batches hold IssueBatchSize repositories, so fetchIssues runs more than one batch.
InitFetch ==
  /\ FetchInit
  /\ limit = CONCURRENT_REPOS /\ LimInit(RepoNames)
  /\ BatchIdle
  /\ RetryIdle
  /\ UtilIdle
NextFetch ==
  \/ StartRun /\ UNCHANGED <<retryVars, utilVars>>
  \/ ConnectDone /\ UNCHANGED <<retryVars, utilVars>>
  \/ ConnectFails /\ UNCHANGED <<retryVars, utilVars>>
  \/ RepoRequestReturns /\ UNCHANGED <<retryVars, utilVars>>
  \/ RepoOrgNotFound /\ UNCHANGED <<retryVars, utilVars>>
  \/ RepoRequestThrows /\ UNCHANGED <<retryVars, utilVars>>
  \/ RepoBulkWriteDone /\ UNCHANGED <<retryVars, utilVars>>
  \/ RepoBulkWriteFails /\ UNCHANGED <<retryVars, utilVars>>
  \/ RepoSleepEnds /\ UNCHANGED <<retryVars, utilVars>>
  \/ IssuesFindReturns /\ UNCHANGED <<retryVars, utilVars>>
  \/ IssuesFindThrows /\ UNCHANGED <<retryVars, utilVars>>
  \/ IssueTaskDelayEnds /\ UNCHANGED <<retryVars, utilVars>>
  \/ IssueTimerFires /\ UNCHANGED <<retryVars, utilVars>>
  \/ IssueBatchDelayEnds /\ UNCHANGED <<retryVars, utilVars>>
  \/ IssueRequestReturns /\ UNCHANGED <<retryVars, utilVars>>
  \/ IssueRepoNotAccessible /\ UNCHANGED <<retryVars, utilVars>>
  \/ IssueRequestThrows /\ UNCHANGED <<retryVars, utilVars>>
  \/ IssueBulkWriteDone /\ UNCHANGED <<retryVars, utilVars>>
  \/ IssueBulkWriteFails /\ UNCHANGED <<retryVars, utilVars>>
  \/ IssueSleepEnds /\ UNCHANGED <<retryVars, utilVars>>
  \/ IssuesReturn /\ UNCHANGED <<retryVars, utilVars>>
  \/ CloseDone /\ UNCHANGED <<retryVars, utilVars>>
  \/ Kill /\ UNCHANGED <<retryVars, utilVars>>
SpecFetch == InitFetch /\ [][NextFetch]_vars

\* the fetch command, run up to MaxResumeRuns times for one existing organization
NextResume ==
  \/ StartRunSameOrg /\ UNCHANGED <<retryVars, utilVars>>
  \/ ConnectDone /\ UNCHANGED <<retryVars, utilVars>>
  \/ ConnectFails /\ UNCHANGED <<retryVars, utilVars>>
  \/ RepoRequestReturns /\ UNCHANGED <<retryVars, utilVars>>
  \/ RepoRequestThrows /\ UNCHANGED <<retryVars, utilVars>>
  \/ RepoBulkWriteDone /\ UNCHANGED <<retryVars, utilVars>>
  \/ RepoBulkWriteFails /\ UNCHANGED <<retryVars, utilVars>>
  \/ RepoSleepEnds /\ UNCHANGED <<retryVars, utilVars>>
  \/ IssuesFindReturns /\ UNCHANGED <<retryVars, utilVars>>
  \/ IssuesFindThrows /\ UNCHANGED <<retryVars, utilVars>>
  \/ IssueTaskDelayEnds /\ UNCHANGED <<retryVars, utilVars>>
  \/ IssueTimerFires /\ UNCHANGED <<retryVars, utilVars>>
  \/ IssueBatchDelayEnds /\ UNCHANGED <<retryVars, utilVars>>
  \/ IssueRequestReturns /\ UNCHANGED <<retryVars, utilVars>>
  \/ IssueRepoNotAccessible /\ UNCHANGED <<retryVars, utilVars>>
  \/ IssueRequestThrows /\ UNCHANGED <<retryVars, utilVars>>
  \/ IssueBulkWriteDone /\ UNCHANGED <<retryVars, utilVars>>
  \/ IssueBulkWriteFails /\ UNCHANGED <<retryVars, utilVars>>
  \/ IssueSleepEnds /\ UNCHANGED <<retryVars, utilVars>>
  \/ IssuesReturn /\ UNCHANGED <<retryVars, utilVars>>
  \/ CloseDone /\ UNCHANGED <<retryVars, utilVars>>
  \/ Kill /\ UNCHANGED <<retryVars, utilVars>>
SpecResume == InitFetch /\ [][NextResume]_vars

\* the fetch command, run up to MaxSoftRuns times for one existing organization, on a
\* disk whose checkpoint writes may fail
StartRunSoft ==
  /\ runs < MaxSoftRuns
  /\ \E o \in Orgs : (org = NoOrg \/ org = o) /\ OrgExists(o) /\ Invoke(o, 0)
InitSoft ==
  /\ FetchInit
  /\ limit = CONCURRENT_REPOS /\ LimInit(RepoNames)
  /\ BatchIdle
  /\ RetryIdle
  /\ UpsertIdle /\ DecideIdle /\ PairIdle /\ ExtIdle
  /\ diskFaults = TRUE
NextSoft ==
  \/ StartRunSoft /\ UNCHANGED <<retryVars, utilVars>>
  \/ ConnectDone /\ UNCHANGED <<retryVars, utilVars>>
  \/ RepoRequestReturns /\ UNCHANGED <<retryVars, utilVars>>
  \/ RepoBulkWriteDone /\ UNCHANGED <<retryVars, utilVars>>
  \/ RepoSleepEnds /\ UNCHANGED <<retryVars, utilVars>>
  \/ IssuesFindReturns /\ UNCHANGED <<retryVars, utilVars>>
  \/ IssueTaskDelayEnds /\ UNCHANGED <<retryVars, utilVars>>
  \/ IssueTimerFires /\ UNCHANGED <<retryVars, utilVars>>
  \/ IssueBatchDelayEnds /\ UNCHANGED <<retryVars, utilVars>>
  \/ IssueRequestReturns /\ UNCHANGED <<retryVars, utilVars>>
  \/ IssueBulkWriteDone /\ UNCHANGED <<retryVars, utilVars>>
  \/ IssueSleepEnds /\ UNCHANGED <<retryVars, utilVars>>
  \/ IssuesReturn /\ UNCHANGED <<retryVars, utilVars>>
  \/ CloseDone /\ UNCHANGED <<retryVars, utilVars>>
  \/ Kill /\ UNCHANGED <<retryVars, utilVars>>
SpecSoft == InitSoft /\ [][NextSoft]_vars

\* the four upsert functions, each called up to MaxPersists times on one collection that
\* starts empty, while the clock advances
InitUpsert ==
  /\ uOp \in UpsertOps
  /\ UpsertInit
  /\ LimIdle /\ BatchIdle /\ RetryIdle /\ FetchIdle
  /\ diskFaults = FALSE /\ DecideIdle /\ PairIdle /\ ExtIdle
NextUpsert ==
  \/ UpsertCalled /\ UNCHANGED <<coreVars, diskFaults, decideVars, pairVars, extVars>>
  \/ UpsertCalledAgain /\ UNCHANGED <<coreVars, diskFaults, decideVars, pairVars, extVars>>
  \/ DateAdvances /\ UNCHANGED <<coreVars, diskFaults, decideVars, pairVars, extVars>>
SpecUpsert == InitUpsert /\ [][NextUpsert]_vars

\* shouldResumeFromCheckpoint called once on each checkpoint, org and time
InitDecide ==
  /\ mCheckpoint \in ManagerCheckpoints
  /\ mOrg \in ManagerOrgs
  /\ mNow \in ManagerNows
  /\ mpc = "call" /\ mResult = FALSE
  /\ LimIdle /\ BatchIdle /\ RetryIdle /\ FetchIdle
  /\ UpsertIdle /\ diskFaults = FALSE /\ PairIdle /\ ExtIdle
NextDecide ==
  \/ ShouldResumeCalled /\ UNCHANGED <<coreVars, upsertVars, diskFaults, pairVars, extVars>>
SpecDecide == InitDecide /\ [][NextDecide]_vars

\* the two REST retry functions, each making its request against a server that answers
\* both with the same error responses, then with a success
InitPair ==
  /\ script \in Scripts
  /\ PairInit
  /\ LimIdle /\ BatchIdle /\ RetryIdle /\ FetchIdle
  /\ UpsertIdle /\ diskFaults = FALSE /\ DecideIdle /\ ExtIdle
NextPair ==
  \/ PairAttemptSucceeds /\ UNCHANGED <<coreVars, upsertVars, diskFaults, decideVars, extVars>>
  \/ PairAttemptFails /\ UNCHANGED <<coreVars, upsertVars, diskFaults, decideVars, extVars>>


SpecPair == InitPair /\ [][NextPair]_vars

\* fetchRepositories and fetchRepoIssues, each called once on every connection, with and
\* without a since date, from the start of the connection or from a saved cursor
InitSince ==
  /\ sFn \in SinceFns
  /\ since \in Sinces
  /\ sNodes \in NodeLists
  /\ \E c \in SinceStarts :
       /\ c <= Len(sNodes)
       /\ sLoc = [hasNext |-> TRUE, cursor |-> c, fetched |-> c, page |-> 1,
                  start |-> c, startCount |-> c]
  /\ SinceInit
  /\ LimIdle /\ BatchIdle /\ RetryIdle /\ FetchIdle
  /\ UpsertIdle /\ diskFaults = FALSE /\ DecideIdle /\ PairIdle
  /\ RestIdle /\ ConnInit
NextSince ==
  \/ SinceRequestReturns /\ UNCHANGED <<coreVars, upsertVars, diskFaults, decideVars, pairVars, restVars, connVars>>
  \/ SinceBulkWriteDone /\ UNCHANGED <<coreVars, upsertVars, diskFaults, decideVars, pairVars, restVars, connVars>>
  \/ SinceThrows /\ UNCHANGED <<coreVars, upsertVars, diskFaults, decideVars, pairVars, restVars, connVars>>
  \/ SinceSleepEnds /\ UNCHANGED <<coreVars, upsertVars, diskFaults, decideVars, pairVars, restVars, connVars>>
SpecSince == InitSince /\ [][NextSince]_vars

\* GitHubAPI.fetchOrgRepos called once on every organization, with and without a since
\* date, from page 1 or a later page
InitRest ==
  /\ oSince \in Sinces
  /\ oStart \in RestStarts
  /\ oList \in NodeLists
  /\ RestInit
  /\ LimIdle /\ BatchIdle /\ RetryIdle /\ FetchIdle
  /\ UpsertIdle /\ diskFaults = FALSE /\ DecideIdle /\ PairIdle
  /\ SinceIdle /\ ConnInit
NextRest ==
  \/ OrgReposRequestReturns /\ UNCHANGED <<coreVars, upsertVars, diskFaults, decideVars, pairVars, sinceVars, connVars>>
  \/ OrgReposRequestThrows /\ UNCHANGED <<coreVars, upsertVars, diskFaults, decideVars, pairVars, sinceVars, connVars>>
  \/ OrgReposSleepEnds /\ UNCHANGED <<coreVars, upsertVars, diskFaults, decideVars, pairVars, sinceVars, connVars>>
SpecRest == InitRest /\ [][NextRest]_vars

\* the connection module from its load: up to MaxConnectCalls calls of connectToMongo and
\* MaxCloseCalls calls of closeConnection made at any time, so also while earlier ones
\* are awaiting, with connect() and close() resolving or rejecting and the client emitting
\* serverClosed and up to MaxHeartbeats serverHeartbeatFailed events
InitConn ==
  /\ ConnInit
  /\ LimIdle /\ BatchIdle /\ RetryIdle /\ FetchIdle
  /\ UpsertIdle /\ diskFaults = FALSE /\ DecideIdle /\ PairIdle
  /\ SinceIdle /\ RestIdle
NextConn ==
  \/ ConnectCalled /\ UNCHANGED <<coreVars, upsertVars, diskFaults, decideVars, pairVars, sinceVars, restVars>>
  \/ ConnectOptionsThrow /\ UNCHANGED <<coreVars, upsertVars, diskFaults, decideVars, pairVars, sinceVars, restVars>>
  \/ ReconnectTimerFires /\ UNCHANGED <<coreVars, upsertVars, diskFaults, decideVars, pairVars, sinceVars, restVars>>
  \/ ConnectResolves /\ UNCHANGED <<coreVars, upsertVars, diskFaults, decideVars, pairVars, sinceVars, restVars>>
  \/ ConnectRejects /\ UNCHANGED <<coreVars, upsertVars, diskFaults, decideVars, pairVars, sinceVars, restVars>>
  \/ CloseCalled /\ UNCHANGED <<coreVars, upsertVars, diskFaults, decideVars, pairVars, sinceVars, restVars>>
  \/ CloseResolves /\ UNCHANGED <<coreVars, upsertVars, diskFaults, decideVars, pairVars, sinceVars, restVars>>
  \/ CloseRejects /\ UNCHANGED <<coreVars, upsertVars, diskFaults, decideVars, pairVars, sinceVars, restVars>>
  \/ ServerClosed /\ UNCHANGED <<coreVars, upsertVars, diskFaults, decideVars, pairVars, sinceVars, restVars>>
  \/ ServerHeartbeatFailed /\ UNCHANGED <<coreVars, upsertVars, diskFaults, decideVars, pairVars, sinceVars, restVars>>
SpecConn == InitConn /\ [][NextConn]_vars

\* ================================================================== properties

\* C1: in every reachable state of the limiter 0 <= running <= limit, and every task
\* that was dequeued and started was started by a process() call that read running < limit.
C1_RunningWithinLimit ==
  /\ 0 <= running /\ running <= limit
  /\ \A t \in DOMAIN tstate : tstate[t] \notin {"new", "queued"} =>
       (0 <= admittedAt[t] /\ admittedAt[t] < limit)
\* the limiter is full, a task waits in the queue, one task has failed and one succeeded
C1_Witness ==
  /\ running = limit /\ Len(queue) > 0
  /\ \E t, u \in Tasks : tstate[t] = "rejected" /\ tstate[u] = "resolved"

\* C2: a request whose every attempt failed with a retryable-transient error is
\* attempted exactly 4 times and then throws: never thrown before the 4th attempt,
\* thrown right at the 4th, and no 5th attempt.
AllTransient == attempts > 0 /\ nTransient = attempts
C2_RetryBudget ==
  AllTransient =>
    /\ attempts <= 4
    /\ (rpc = "thrown") = (attempts = 4)
C2_Witness == AllTransient /\ attempts = 4 /\ rpc = "thrown" /\ rImpl = "makeRequest"

\* C3: in graphqlWithRetry / requestWithRetry the retry counter counts the transient
\* failures only (rate-limit waits leave it alone), and the request is thrown only
\* on a fatal error or on its 4th transient failure.
C3_RateLimitNotCounted ==
  rImpl \in {"graphql", "rest"} =>
    /\ rpc \in {"call", "sleepRL", "returned"} => retry = nTransient
    /\ rpc = "thrown" => (ClassOf(lastErr) = "fatal" \/ nTransient = 4)
C3_Witness ==
  /\ rImpl = "rest" /\ rpc = "thrown"
  /\ nRateLimited = MaxRateLimited /\ nTransient = 4 /\ ClassOf(lastErr) = "transient"

\* C4: when processItems returns, every item has run to a terminal state, sits exactly
\* once in results or in errors (in results iff it succeeded), and successCount +
\* errorCount is the number of items, whatever items failed.
Occurrences(seq, x) == Cardinality({j \in 1..Len(seq) : seq[j] = x})
C4_BatchIsolation ==
  bpc = "returned" =>
    /\ \A k \in 1..nItems :
         /\ tstate[k] \in {"resolved", "rejected"}
         /\ admittedAt[k] >= 0
         /\ Occurrences(results, k) = (IF tstate[k] = "resolved" THEN 1 ELSE 0)
         /\ Occurrences(errors, k) = (IF tstate[k] = "rejected" THEN 1 ELSE 0)
    /\ Len(results) + Len(errors) = nItems
\* 5 items in one batch, item 3 failed and the others succeeded: 4 successes, 1 error
C4_Witness ==
  /\ bpc = "returned" /\ nItems = 5 /\ batchSize = 5 /\ limit = CONCURRENT_REPOS
  /\ errors = <<3>> /\ results = <<1, 2, 4, 5>>

\* C5: a step of fetchRepositories or fetchRepoIssues that writes a cursor and count
\* into the checkpoint leaves every page this call fetched up to that cursor in the
\* store; a step in which a bulkWrite fails writes no checkpoint cursor and count and
\* propagates the error (out of handleFetchAction's try, or as the task's rejection).
RepoPage == PageNodes(RepoCount(org), rCursor, RepoPageSize)
IssuePage(t) == PageNodes(IssueCount(org, repos[t]), tl[t].cursor, IssuePageSize)
C5_PersistBeforeCheckpoint ==
  [][hpc' # "killed" =>
      /\ (hpc \in {"repoRequest", "repoBulkWrite"} /\ ckptFile' # ckptFile) =>
           /\ ckptFile'.data.endCursor = PageEndCursor(RepoCount(org), rCursor, RepoPageSize)
           /\ ckptFile'.data.count = rFetched + Cardinality(RepoPage)
           /\ \A k \in 1..RepoCount(org) :
                (startCursor < k /\ k <= ckptFile'.data.endCursor) => <<org, k>> \in repoStore'
           /\ \A k \in RepoPage : <<org, k>> \in repoStore'
      /\ (/\ hpc = "repoBulkWrite" /\ hpc' # "repoBulkWrite"
          /\ \E k \in RepoPage : <<org, k>> \notin repoStore') =>
           /\ ckptFile' = ckptFile
           /\ hpc' = "closing" /\ failure' = "bulkWrite" /\ exitCode' = 1
      /\ \A t \in 1..nItems :
           /\ (/\ hpc = "issues" /\ tstate[t] = "running"
               /\ ckptFile'.data.issues[repos[t]] # ckptFile.data.issues[repos[t]]) =>
                /\ ckptFile'.data.issues[repos[t]].count = tl'[t].fetched
                /\ \A k \in 1..IssueCount(org, repos[t]) :
                     (IssueStartCursorOf(fcp, repos[t]) < k
                        /\ k <= ckptFile'.data.issues[repos[t]].endCursor)
                     => <<org, repos[t], k>> \in issueStore'
                /\ \A k \in IssuePage(t) : <<org, repos[t], k>> \in issueStore'
           /\ (/\ hpc = "issues" /\ tstate[t] = "running"
               /\ tl[t].ipc = "bulkWrite" /\ tl'[t].ipc # "bulkWrite"
               /\ \E k \in IssuePage(t) : <<org, repos[t], k>> \notin issueStore') =>
                /\ ckptFile'.data.issues[repos[t]] = ckptFile.data.issues[repos[t]]
                /\ tstate'[t] = "rejected"
  ]_vars
\* page 1 was persisted and checkpointed, the bulkWrite of page 2 failed, and the file
\* still holds the cursor and count of page 1
C5_Witness ==
  /\ hpc = "done" /\ failure = "bulkWrite" /\ rPage = 2
  /\ ckptFile.exists /\ ckptFile.data.org = org
  /\ ckptFile.data.endCursor = RepoPageSize /\ ckptFile.data.count = RepoPageSize
  /\ <<org, RepoPageSize>> \in repoStore /\ <<org, RepoPageSize + 1>> \notin repoStore

\* C6: whenever fetchRepositories returns, in a first run or in a run restarted for the
\* same organization from the checkpoint earlier runs left, its count is the count of
\* a from-scratch fetch: the number of repositories of the organization.
C6_ResumeCountEqualsFromScratch ==
  (hpc = "issuesFind") => rFetched = RepoCount(org)

\* C7: a checkpoint written for another organization is discarded: fetchRepositories
\* starts with cursor null and count 0, and fetchRepoIssues starts every repository
\* with cursor null and count 0.
C7_ForeignCheckpointDiscarded ==
  /\ (hpc \notin {"idle", "connect", "killed"} /\ cpAtStart.org # NoOrg /\ cpAtStart.org # org)
       => (startCursor = Null /\ startCount = 0)
  /\ (hpc = "issues" /\ fcp.org # org) =>
       \A t \in 1..nItems :
         IssueStartCursorOf(fcp, repos[t]) = Null /\ IssueStartCountOf(fcp, repos[t]) = 0

\* C8: a checkpoint whose timestamp is more than one hour older than the start of the
\* run is not used: fetchRepositories starts with cursor null and count 0.
C8_StaleCheckpointNotUsed ==
  staleAtStart => (startCursor = Null /\ startCount = 0)

\* C9: if a repository's issue fetch ended in the errors list of the batch scheduler,
\* the checkpoint file still exists when handleFetchAction returns.
C9_CheckpointKeptOnItemErrors ==
  (hpc = "done" /\ Len(errors) > 0) => ckptFile.exists

\* C10: when fetchRepositories throws, handleFetchAction never starts fetchIssues, sets
\* exit code 1, and returns with the checkpoint file as it was when the error was thrown.
C10_RepoFailureAborts ==
  (hpc \in {"closing", "done"} /\ failure \in {"orgNotFound", "api", "bulkWrite"}) =>
    /\ ~issuesStarted /\ bpc = "idle" /\ repos = <<>>
    /\ exitCode = 1
    /\ ckptFile = ckptAtThrow
\* the request of page 2 threw: the run ended with the checkpoint of page 1 in place
C10_Witness ==
  /\ hpc = "done" /\ failure = "api" /\ rPage = 2 /\ exitCode = 1
  /\ ckptFile.exists /\ ckptFile.data.endCursor = RepoPageSize /\ ckptFile.data.org = org

\* C11: when the checkpoint a run finds at its start was written for the same
\* organization and holds {endCursor, count} for repository R, fetchRepoIssues starts
\* R's pagination in this run from that cursor and that count.
C11_IssueResumeFromSavedCursor ==
  (hpc = "issues" /\ cpAtStart.org = org) =>
    \A t \in 1..nItems :
      cpAtStart.issues[repos[t]].set =>
        /\ IssueLocalsInit(fcp, repos[t]).cursor = cpAtStart.issues[repos[t]].endCursor
        /\ IssueLocalsInit(fcp, repos[t]).fetched = cpAtStart.issues[repos[t]].count

\* C12: when task functions terminate and timers fire, every task given to add() is
\* eventually started and its promise eventually settles, however many tasks were added
\* beyond the limit.
C12_EveryTaskSettles ==
  \A t \in Tasks : (tstate[t] # "new") ~> (tstate[t] \in {"resolved", "rejected"})
\* with limit 1, MaxTasks tasks were added and all of them have settled, both ways
C12_Witness ==
  /\ limit = 1 /\ running = 0 /\ queue = <<>>
  /\ \A t \in Tasks : tstate[t] \in {"resolved", "rejected"}
  /\ \E t, u \in Tasks : tstate[t] = "resolved" /\ tstate[u] = "rejected"

\* C13: tasks start in the order of their add() calls: a task never starts while a task
\* added before it is still waiting (tasks are numbered in the order of the add() calls).
C13_FifoAdmission ==
  \A t, u \in Tasks :
    (t < u /\ tstate[u] \notin {"new", "queued"}) => tstate[t] \notin {"new", "queued"}
\* limit 1: task 1 has finished and its delayed process() call is still pending; the
\* add() calls made in that gap have task 2 started and tasks 3 and 4 queued in order
C13_Witness ==
  /\ limit = 1 /\ timers = 1
  /\ tstate[1] \in {"resolved", "rejected"} /\ tstate[2] \in {"delay", "running"}
  /\ tstate[3] = "queued" /\ tstate[4] = "queued" /\ queue = <<3, 4>>

\* C14: a step in which waitForCompletion returns starts in a state where running = 0
\* and the queue is empty; it never returns while queued tasks wait for the delayed
\* process() call.
C14_WaitReturnsWhenIdle ==
  [][(bpc = "waitForCompletion" /\ bpc' = "returned") => (running = 0 /\ queue = <<>>)]_vars
\* waitForCompletion has been called and has not returned; the last running task has
\* finished and a queued task waits for the delayed process() call
C14_Witness ==
  /\ bpc = "waitForCompletion" /\ running = 0 /\ Len(queue) > 0 /\ timers > 0

\* C15: in GitHubAPIWithRetries a failure is handled as rate-limited (the rate-limit wait)
\* iff its status is 403 or 429 and x-ratelimit-remaining is "0"; otherwise as transient
\* (backoff while the budget lasts) iff it has no status, a status >= 500 or status 429;
\* otherwise as fatal (thrown at once). A 429 with zero quota takes the rate-limit wait.
C15_ErrorClassification ==
  (rImpl \in {"graphql", "rest"} /\ rpc \in {"sleepRL", "sleepBackoff", "thrown"}) =>
    /\ (rpc = "sleepRL") = (ClassOf(lastErr) = "rate-limited")
    /\ (rpc = "sleepBackoff") = (ClassOf(lastErr) = "transient" /\ retry < MAX_RETRIES)
    /\ (rpc = "thrown") = (ClassOf(lastErr) = "fatal" \/ (ClassOf(lastErr) = "transient" /\ retry = MAX_RETRIES))
\* a 429 with zero remaining quota, retryable by its status, is in the rate-limit wait
C15_Witness ==
  /\ rImpl = "graphql" /\ rpc = "sleepRL"
  /\ lastErr.status = 429 /\ lastErr.remaining = "0" /\ IsRetryableError(lastErr)

\* C16: in graphqlWithRetry, requestWithRetry and makeRequestWithRetry a fatal failure is
\* thrown by the attempt that met it, with no sleep and no further attempt after it,
\* whatever the retry count reached before.
C16_FatalSurfacesAtOnce ==
  (rImpl # "fetchWithRateLimit" /\ lastErr # NoErr /\ ClassOf(lastErr) = "fatal") =>
    /\ rpc = "thrown"
    /\ nOther = 1 /\ attempts = nTransient + nRateLimited + 1
\* a 404 met by makeRequestWithRetry after two backoff rounds and a rate-limit wait
C16_Witness ==
  /\ rImpl = "makeRequest" /\ rpc = "thrown" /\ lastErr.status = 404
  /\ retry = 2 /\ nRateLimited = 1 /\ attempts = 4

\* C17: after a rate-limited response whose x-ratelimit-reset is T seconds, the next
\* attempt of the request is not issued before time T * 1000 + 1000 ms, at whatever
\* time the response was received.
C17_RateLimitPacing ==
  [][(rpc = "sleepRL" /\ rpc' = "call" /\ lastErr.reset # NoReset)
       => clock' >= lastErr.reset * 1000 + 1000]_vars

\* C18: calculateBackoffDelay gives 1000, 3000 and 9000 ms for retry counts 0, 1 and 2,
\* and in each of the retry loops the backoff sleeps of one request are, in order,
\* 1000 ms, 3000 ms and 9000 ms: strictly increasing, and never a fourth.
C18_BackoffDelays ==
  /\ <<CalculateBackoffDelay(0), CalculateBackoffDelay(1), CalculateBackoffDelay(2)>>
       = <<1000, 3000, 9000>>
  /\ Len(backoffs) <= 3
  /\ backoffs = SubSeq(<<1000, 3000, 9000>>, 1, Len(backoffs))
  /\ \A i \in 1..Len(backoffs) - 1 : backoffs[i] < backoffs[i + 1]
\* fetchWithRateLimit has slept three times and thrown the error of its 4th attempt
C18_Witness ==
  /\ rImpl = "fetchWithRateLimit" /\ rpc = "thrown" /\ Len(backoffs) = 3
  /\ backoffs[1] = 1000 /\ backoffs[3] = 9000

\* C19: processItems cuts the n items, in order, into ceil(n / batchSize) consecutive
\* batches of batchSize items (the last may be shorter); an item is handed to the
\* limiter only when every item of the earlier batches has settled; the inter-batch
\* delay follows every batch but the last.
Submitted == {t \in DOMAIN tstate : tstate[t] # "new"}
C19_BatchSequencing ==
  /\ \A t \in Submitted : \A u \in 1..nItems :
       ((u - 1) \div batchSize < (t - 1) \div batchSize) => tstate[u] \in {"resolved", "rejected"}
  /\ \A k \in 1..Len(batchCalls) :
       /\ batchCalls[k][1] = k
       /\ batchCalls[k][2] * batchSize >= nItems /\ (batchCalls[k][2] - 1) * batchSize < nItems
  /\ bpc = "awaitBatch" => Submitted = 1..Min((Len(batchCalls) + 1) * batchSize, nItems)
  /\ bpc = "batchDelay" =>
       (Submitted = 1..(Len(batchCalls) * batchSize) /\ Len(batchCalls) * batchSize < nItems)
  /\ bpc \in {"waitForCompletion", "returned"} =>
       (Submitted = 1..nItems /\ Len(batchCalls) * batchSize >= nItems
          /\ (Len(batchCalls) - 1) * batchSize < nItems)
\* five items in batches of two: three batches were run and processItems has returned
C19_Witness ==
  /\ bpc = "returned" /\ nItems = 5 /\ batchSize = 2 /\ Len(batchCalls) = 3
  /\ batchCalls[3] = <<3, 3>> /\ Len(results) + Len(errors) = 5

\* C20: once k batches have settled, onBatchComplete has been called k times, the j-th
\* call with batchNumber = j, and onProgress exactly once for each item of those batches
\* and for no other; in fetchIssues the checkpoint then holds batchesCompleted = k, which
\* so counts 1, 2, ... up to totalBatches and never beyond.
C20_ProgressAfterEachBatch ==
  /\ \A j \in 1..Len(batchCalls) : batchCalls[j][1] = j /\ j <= batchCalls[j][2]
  /\ Len(progressCalls) = Min(Len(batchCalls) * batchSize, nItems)
  /\ \A j \in 1..Len(progressCalls) : progressCalls[j][1] = j
  /\ hpc = "issues" =>
       /\ ckptFile.exists
       /\ ckptFile.data.batchesCompleted = Len(batchCalls)
       /\ Len(batchCalls) > 0 =>
            /\ ckptFile.data.totalBatches * batchSize >= nItems
            /\ ckptFile.data.batchesCompleted <= ckptFile.data.totalBatches
\* fetchIssues has run two batches; the checkpoint holds batchesCompleted = 2 of 2
C20_Witness ==
  /\ hpc = "issues" /\ Len(batchCalls) = 2 /\ Len(progressCalls) = nItems
  /\ nItems > batchSize
  /\ ckptFile.data.batchesCompleted = 2 /\ ckptFile.data.totalBatches = 2

\* C21: one call of fetchRepoIssues requests at most 5 pages; when the 5th page still
\* reports more pages the call returns normally, with the count of the pages it fetched
\* added to its starting count, and its repository counts as a success.
C21_IssuePageCap ==
  hpc = "issues" =>
    \A t \in 1..nItems :
      /\ tl[t].page <= 5
      /\ (tl[t].ipc \in {"returned", "thrown"} /\ tl[t].page = 5 /\ tl[t].hasNext
            /\ tl[t].cursor = IssueStartCursorOf(fcp, repos[t]) + 5 * IssuePageSize) =>
           /\ tl[t].ipc = "returned"
           /\ tstate[t] = "resolved"
           /\ tl[t].fetched = IssueStartCountOf(fcp, repos[t]) + 5 * IssuePageSize
\* the repository of "b" has more than 5 pages of issues: the call has returned after
\* its 5th page, and the repository is in the results of its batch
C21_Witness ==
  /\ hpc = "issues" /\ org = "b" /\ tl[1].ipc = "returned" /\ tl[1].page = 5
  /\ tl[1].hasNext /\ tl[1].cursor = 5 * IssuePageSize
  /\ results = <<1>> /\ totalFetched = 5 * IssuePageSize

\* C22: in fetchRepositories every step that completes a page (the request returned and,
\* when the page has nodes, its bulkWrite resolved) writes the checkpoint once, and the
\* file then holds org, the page's pageInfo.endCursor as repos.endCursor and the running
\* count `fetched` as repos.count; no other step of fetchRepositories writes the file.
C22_RepoCheckpointCadence ==
  [][/\ (hpc \in {"repoRequest", "repoBulkWrite"} /\ hpc' = "repoSleep") =>
          /\ ckptFile'.exists
          /\ ckptFile'.data.org = org
          /\ ckptFile'.data.hasRepos
          /\ ckptFile'.data.endCursor = PageEndCursor(RepoCount(org), rCursor, RepoPageSize)
          /\ ckptFile'.data.endCursor = rCursor'
          /\ ckptFile'.data.count = rFetched + Cardinality(RepoPage)
          /\ ckptFile'.data.count = rFetched'
          /\ ckptFile'.data.lastPage = rPage
          /\ RepoPage \subseteq {k \in RepoNames : <<org, k>> \in repoStore'}
     /\ (hpc \in {"connect", "repoRequest", "repoBulkWrite", "repoSleep"}
           /\ ckptFile' # ckptFile) =>
          (hpc \in {"repoRequest", "repoBulkWrite"} /\ hpc' = "repoSleep")
  ]_vars
\* the second page of a from-scratch fetch was persisted and checkpointed
C22_Witness ==
  /\ hpc = "repoSleep" /\ org = "a" /\ startCount = 0 /\ rPage = 2
  /\ ckptFile.exists /\ ckptFile.data.org = "a"
  /\ ckptFile.data.endCursor = Min(2 * RepoPageSize, MaxRepos)
  /\ ckptFile.data.count = Min(2 * RepoPageSize, MaxRepos)
  /\ {<<"a", k>> : k \in 1..Min(2 * RepoPageSize, MaxRepos)} \subseteq repoStore

\* C23: when fetchRepoIssues has returned normally after fetching at least one page
\* (pagination exhausted, or the page cap reached), the checkpoint entry
\* issues[repo.name] holds the call's final cursor and the count the call returned.
IssueCallCompleted(t) ==
  /\ tl[t].ipc = "returned"
  /\ tl[t].page >= 1
  /\ \/ ~tl[t].hasNext
     \/ /\ tl[t].page = maxPages
        /\ tl[t].cursor = IssueStartCursorOf(fcp, repos[t]) + maxPages * IssuePageSize
C23_IssueCheckpointOnCompletion ==
  hpc = "issues" =>
    \A t \in 1..nItems :
      IssueCallCompleted(t) =>
        /\ ckptFile.data.issues[repos[t]].set
        /\ ckptFile.data.issues[repos[t]].endCursor = tl[t].cursor
        /\ ckptFile.data.issues[repos[t]].count = tl[t].fetched
\* the part of C23 that the code keeps: the entry is written after every 2nd page and
\* after the page that ends the pagination
C23_WrittenOnEvenAndLastPage ==
  [][\A t \in 1..nItems :
       (/\ hpc = "issues" /\ hpc' = "issues" /\ tstate[t] = "running"
        /\ tl[t].ipc \in {"request", "bulkWrite"}
        /\ tl'[t].ipc \in {"sleep", "returned"}
        /\ tl'[t].cursor # tl[t].cursor
        /\ (tl[t].page % 2 = 0 \/ ~tl'[t].hasNext)) =>
         /\ ckptFile'.data.issues[repos[t]].set
         /\ ckptFile'.data.issues[repos[t]].endCursor = tl'[t].cursor
         /\ ckptFile'.data.issues[repos[t]].count = tl'[t].fetched
  ]_vars

\* C24: a fetchRepositories call that starts without a checkpoint, for an organization
\* with n >= 1 repositories served RepoPageSize a page, and in which nothing fails:
\* after its p-th page the cursor and the checkpoint cursor stand at min(p * RepoPageSize, n),
\* and when it has returned it has requested ceil(n / RepoPageSize) pages and its count,
\* the checkpoint count and the number of stored repositories of the organization are n.
\* For n = 0 it requests one page, the cursor stays null and the counts are 0.
Ceil(n, size) == (n + size - 1) \div size
FromScratch == startCursor = Null /\ startCount = 0 /\ ~cpAtStart.hasRepos
StoredRepos(o) == {k \in RepoNames : <<o, k>> \in repoStore}
RepoFetchReturned == hpc = "issuesFind"
C24_PagesOf(n) == IF n = 0 THEN 1 ELSE Ceil(n, RepoPageSize)
C24_FromScratchRepoFetch ==
  FromScratch =>
    /\ hpc = "repoSleep" =>
         /\ rCursor = Min(rPage * RepoPageSize, RepoCount(org))
         /\ ckptFile.data.endCursor = rCursor
         /\ rFetched = rCursor
    /\ RepoFetchReturned =>
         /\ rPage = C24_PagesOf(RepoCount(org))
         /\ rFetched = RepoCount(org)
         /\ ckptFile.data.count = RepoCount(org)
         /\ Cardinality(StoredRepos(org)) = RepoCount(org)
\* organization "a" with MaxRepos repositories: the call has returned after
\* ceil(MaxRepos / RepoPageSize) > 1 pages, the last of them short
C24_Witness ==
  /\ FromScratch /\ RepoFetchReturned /\ org = "a"
  /\ rPage = Ceil(MaxRepos, RepoPageSize) /\ rPage > 1
  /\ rFetched = MaxRepos /\ ckptFile.data.count = MaxRepos
\* C24 as stated: ceil(n / RepoPageSize) page requests for every n
C24_CeilPagesForEveryCount ==
  (FromScratch /\ RepoFetchReturned) => rPage = Ceil(RepoCount(org), RepoPageSize)

\* C25: when the first request of fetchRepoIssues finds the repository not accessible
\* (res.repository is null), the call returns 0 and its task is fulfilled; the step
\* writes nothing to the issue store or to the checkpoint's issue entries, raises no
\* error and leaves the other tasks as they were or started; and when fetchIssues has
\* returned every repository has been processed, the inaccessible ones as successes.
NotAccessibleAtFirst(L) == L.ipc = "returned" /\ L.page = 1 /\ L.hasNext
C25_NotAccessibleIsZero ==
  /\ [][\A t \in 1..nItems :
          (/\ hpc = "issues" /\ hpc' = "issues"
           /\ tl[t].ipc = "request" /\ NotAccessibleAtFirst(tl'[t])) =>
            /\ tl'[t].fetched = 0
            /\ tstate'[t] = "resolved"
            /\ issueStore' = issueStore
            /\ ckptFile'.data.issues = ckptFile.data.issues
            /\ failure' = "none" /\ exitCode' = 0
            /\ totalFetched' \in {totalFetched} \cup
                 {totalFetched + SumFetched([tstate |-> tstate'], [tl EXCEPT ![t].fetched = 0],
                                            BatchLo(bi), BatchHi(bi, batchSize, nItems))}
            /\ \A u \in (1..nItems) \ {t} :
                 /\ tl'[u] = tl[u]
                 /\ tstate'[u] # tstate[u] => (tstate[u] = "queued" /\ tstate'[u] \in {"delay", "running"})
       ]_vars
  /\ [](hpc = "closing" /\ failure = "none" /\ nItems > 0 =>
          /\ Len(results) + Len(errors) = nItems
          /\ \A t \in 1..nItems :
               NotAccessibleAtFirst(tl[t]) =>
                 /\ \E i \in 1..Len(results) : results[i] = t
                 /\ \A i \in 1..Len(errors) : errors[i] # t)
\* in "a" the repository of the first batch's first task was not accessible; the second
\* batch ran and its repository's issues were fetched and counted
C25_Witness ==
  /\ hpc = "closing" /\ failure = "none" /\ org = "a" /\ nItems = MaxRepos
  /\ NotAccessibleAtFirst(tl[1]) /\ tl[1].fetched = 0
  /\ Len(batchCalls) = 2 /\ Len(results) = nItems
  /\ tl[nItems].fetched = MaxIssues /\ totalFetched >= MaxIssues
  /\ \A k \in 1..IssueCount("a", repos[1]) : <<"a", repos[1], k>> \notin issueStore
\* the REST client: an attempt of makeRequestWithRetry that fails with 404 is neither
\* waited on nor retried, and fetchRepoIssues turns the thrown error into the empty list
C25_Api404IsEmptyList ==
  (rImpl = "makeRequest" /\ rpc \in {"sleepRL", "sleepBackoff", "thrown"}
     /\ lastErr.status = 404) =>
    (rpc = "thrown" /\ FetchRepoIssuesCatch(lastErr) = "empty")

\* C26: persisting the documents of the last call a second time leaves the collection
\* as the first time left it: as many documents, at most one per key, and every field
\* of every document unchanged. Stated for all four upsert functions.
AtMostOnePerKey(c) == \A i, j \in 1..Len(c) : c[i].key = c[j].key => i = j
SameAsAfterFirst ==
  /\ Len(coll) = Len(afterFirst)
  /\ AtMostOnePerKey(coll)
  /\ \A i \in 1..Len(coll) : coll[i] = afterFirst[i]
C26_IdempotentUpsert == persists >= 2 => SameAsAfterFirst
\* the part of C26 that the code keeps: the three bulk upserts
C26_BulkUpsertsIdempotent ==
  (persists >= 2 /\ uOp # "RepoModel.upsert") => SameAsAfterFirst

\* C27: a checkpoint file that is missing or does not parse loads as the empty
\* checkpoint (loadCheckpoint) or as null (CheckpointManager.loadCheckpoint), neither
\* with an org, a cursor or a count, and no error is raised: fetchRepositories then
\* starts from cursor null and count 0, and fetchIssues hands the empty checkpoint to
\* fetchRepoIssues, which starts every repository from cursor null and count 0.
Unreadable(f) == ~f.exists \/ ~f.parsable
C27_LoadFailsSoft ==
  /\ [](Unreadable(ckptFile) =>
          /\ LoadCheckpoint(ckptFile) = EmptyCp
          /\ ManagerLoadCheckpoint(ckptFile) = NullCheckpoint)
  /\ [][/\ (hpc = "connect" /\ hpc' # "killed" /\ Unreadable(ckptFile)) =>
             /\ hpc' = "repoRequest"
             /\ cpAtStart' = EmptyCp
             /\ rCursor' = Null /\ rFetched' = 0
             /\ failure' = "none" /\ exitCode' = 0
        /\ (hpc = "repoSleep" /\ ~rHasNext /\ hpc' # "killed" /\ Unreadable(ckptFile)) =>
             /\ hpc' = "issuesFind"
             /\ fcp' = EmptyCp
             /\ failure' = "none" /\ exitCode' = 0
        /\ (hpc = "issuesFind" /\ hpc' = "issues" /\ fcp = EmptyCp) =>
             \A t \in 1..nItems' : tl'[t].cursor = Null /\ tl'[t].fetched = 0
       ]_vars
\* a run has started on a file whose write was cut short in the run before, after a
\* page with a cursor: fetchRepositories is about to request its first page from null
C27_Witness ==
  /\ runs = 2 /\ hpc = "repoRequest" /\ rPage = 1
  /\ ckptFile.exists /\ ~ckptFile.parsable /\ ckptFile.data.endCursor # Null
  /\ cpAtStart = EmptyCp /\ rCursor = Null /\ rFetched = 0

\* C28: in runs in which nothing fails except checkpoint writes, no error is raised,
\* and the run requests and persists the pages and counts what it does when every write
\* succeeds: fetchRepositories goes on from the cursor and count it loaded at its
\* start, and fetchRepoIssues fetches every repository from its first page, so that
\* after k pages its cursor and count stand at min(k * IssuePageSize, n).
IssuePagesDone(L) == IF L.ipc \in {"request", "bulkWrite"} THEN L.page - 1 ELSE L.page
RepoPagesDone == IF hpc \in {"repoRequest", "repoBulkWrite"} THEN rPage - 1 ELSE rPage
C28_SaveFailsSoft ==
  /\ failure = "none" /\ exitCode = 0
  /\ hpc \in {"repoRequest", "repoBulkWrite", "repoSleep", "issuesFind"} =>
       /\ rFetched = startCount + Cardinality(
             {k \in 1..RepoCount(org) :
                startCursor < k /\ k <= startCursor + RepoPagesDone * RepoPageSize})
       /\ \A k \in 1..RepoCount(org) :
            (startCursor < k /\ k <= startCursor + RepoPagesDone * RepoPageSize) =>
              <<org, k>> \in repoStore
  /\ hpc = "issues" =>
       \A t \in 1..nItems :
         tl[t].ipc # "none" =>
           /\ tl[t].cursor = Min(IssuePagesDone(tl[t]) * IssuePageSize, IssueCount(org, repos[t]))
           /\ tl[t].fetched = tl[t].cursor
           /\ \A k \in 1..tl[t].cursor : <<org, repos[t], k>> \in issueStore

\* C29: shouldResumeFromCheckpoint(checkpoint, org) returns true exactly when the
\* checkpoint is present, its org equals org and its timestamp is strictly later than
\* Date.now() - 3,600,000; it returns false for null, for another org, and for a
\* timestamp one hour old or older.
C29_ShouldResume ==
  mpc = "returned" =>
    /\ mResult \in BOOLEAN
    /\ mResult <=> (/\ mCheckpoint # NullCheckpoint
                    /\ mCheckpoint.org = mOrg
                    /\ mCheckpoint.timestamp # NoTimestamp
                    /\ mCheckpoint.timestamp > mNow - 3600000)
    /\ mCheckpoint = NullCheckpoint => ~mResult
    /\ mCheckpoint.org # mOrg => ~mResult
    /\ (mCheckpoint.timestamp # NoTimestamp /\ mNow - mCheckpoint.timestamp >= 3600000)
         => ~mResult
\* a checkpoint of the same org written 3,599,999 ms ago is resumed from
C29_Witness ==
  /\ mpc = "returned" /\ mResult = TRUE
  /\ mCheckpoint.present /\ mCheckpoint.org = "a" /\ mOrg = "a"
  /\ mNow - mCheckpoint.timestamp = 3600000 - 1

\* C30: given the same error responses followed by a success, makeRequestWithRetry and
\* requestWithRetry make the same number of attempts, take the same kinds of wait in
\* the same order, and end the same way (both return, or both throw the same error).
PairDone == \A i \in PairImpls : pairOut[i] # "running"
PairAgrees ==
  /\ pairPos["makeRequest"] = pairPos["rest"]
  /\ pairWaits["makeRequest"] = pairWaits["rest"]
  /\ pairOut["makeRequest"] = pairOut["rest"]
  /\ pairErr["makeRequest"] = pairErr["rest"]
C30_RetryImplementationsAgree == PairDone => PairAgrees
\* the part of C30 that the code keeps: the two agree on every script without a 429
\* response that carries x-ratelimit-remaining: 0
C30_AgreeWithoutExhausted429 ==
  (PairDone /\ \A k \in 1..Len(script) :
                 ~(script[k].status = 429 /\ script[k].remaining = "0")) => PairAgrees

\* C31: when the first attempt of fetchWithRateLimit fails with a fatal error (a status
\* such as 404 or 422), the function throws it at once: no backoff sleep, no further
\* attempt.
C31_FetchWithRateLimitFatalAtOnce ==
  (rImpl = "fetchWithRateLimit" /\ attempts = 1 /\ lastErr # NoErr
     /\ ClassOf(lastErr) = "fatal") =>
    (rpc = "thrown" /\ backoffs = <<>>)

\* the nodes of the connection that the since date admits
Matching == {k \in 1..Len(sNodes) : since = NoSince \/ sNodes[k] >= since}
\* the nodes of the pages this call has processed
SinceSeen == {k \in 1..Len(sNodes) : sLoc.start < k /\ k <= sLoc.start + Len(sKept) * SincePageSize}
\* the pages between the start cursor and the end of the connection
SincePagesToEnd ==
  IF Len(sNodes) <= sLoc.start THEN 1 ELSE Ceil(Len(sNodes) - sLoc.start, SincePageSize)

StrictlyDescending(nodes) == \A i, j \in 1..Len(nodes) : i < j => nodes[i] > nodes[j]
\* the nodes of the first maxPages pages after the start cursor
WithinPageCap == {k \in 1..Len(sNodes) : sLoc.start < k /\ k <= sLoc.start + maxPages * SincePageSize}

\* C33: under a since date fetchRepoIssues stops after the first page of which fewer
\* than a full page (or nothing) was kept: every page before the last one processed was
\* kept whole. When the issues come strictly newest first, every issue with
\* createdAt >= since within the first maxPages pages after the start cursor is in the
\* store when the call returns.
C33_EarlyStopLosesNothing ==
  (sFn = "fetchRepoIssues" /\ since # NoSince) =>
    /\ \A i \in 1..(Len(sKept) - 1) : sKept[i] = SincePageSize
    /\ (sPc = "returned" /\ StrictlyDescending(sNodes)) =>
         (Matching \cap WithinPageCap) \subseteq sStore
\* fetchRepoIssues returned from a newest-first connection at a page of which it kept a
\* part, with pages left unrequested, after a page it kept whole
C33_Witness ==
  /\ sFn = "fetchRepoIssues" /\ since # NoSince /\ sPc = "returned"
  /\ StrictlyDescending(sNodes)
  /\ Len(sKept) >= 2
  /\ sKept[Len(sKept)] > 0 /\ sKept[Len(sKept)] < SincePageSize
  /\ PageHasNext(Len(sNodes), sLoc.start + (Len(sKept) - 1) * SincePageSize, SincePageSize)

\* the batch of processItems that holds item k
BatchOf(k) == BatchNumber(k - 1, batchSize)
\* task k of the processor has started, has settled
Started(k) == tstate[k] \in {"running", "resolved", "rejected"}
Settled(k) == tstate[k] \in {"resolved", "rejected"}

\* C34: the list fetchIssues gives to the processor is the repositories of the store for
\* this organization, by stars descending and among equal stars by forks descending; so
\* every repository of a batch has at least the stars of every repository of the next
\* batches, and none of a later batch has started before all of the batch have settled.
C34_PopularityOrder ==
  hpc = "issues" =>
    /\ {repos[k] : k \in 1..Len(repos)} = {r \in RepoNames : <<org, r>> \in repoStore}
    /\ \A i, j \in 1..Len(repos) :
         i < j => /\ repos[i] # repos[j]
                  /\ Stars(org, repos[i]) >= Stars(org, repos[j])
                  /\ Stars(org, repos[i]) = Stars(org, repos[j]) =>
                       Forks(org, repos[i]) >= Forks(org, repos[j])
    /\ \A i, j \in 1..nItems :
         BatchOf(i) < BatchOf(j) =>
           /\ Stars(org, repos[i]) >= Stars(org, repos[j])
           /\ Started(j) => Settled(i)
\* a repository of the second batch is running, the first batch held two repositories
\* with equal stars ordered by their forks, and the second batch has fewer stars
C34_Witness ==
  /\ hpc = "issues" /\ nItems = 3
  /\ BatchOf(1) = 1 /\ BatchOf(2) = 1 /\ BatchOf(3) = 2
  /\ tstate[3] = "running"
  /\ Stars(org, repos[1]) = Stars(org, repos[2]) /\ Forks(org, repos[1]) > Forks(org, repos[2])
  /\ Stars(org, repos[2]) > Stars(org, repos[3])

\* the org and repos fields of a checkpoint record
RepoFields(cp) == <<cp.org, cp.hasRepos, cp.endCursor, cp.count, cp.lastPage>>
\* a step of the issue phase keeps the file, its org and repos fields, and the entry of
\* every repository whose task did not move in the step; no entry is ever removed
C35_WritePreserves ==
  (hpc = "issues" /\ hpc' = "issues") =>
    /\ ckptFile.exists => ckptFile'.exists /\ ckptFile'.parsable
    /\ RepoFields(ckptFile'.data) = RepoFields(ckptFile.data)
    /\ \A t \in 1..nItems :
         /\ tl'[t] = tl[t] => ckptFile'.data.issues[repos[t]] = ckptFile.data.issues[repos[t]]
         /\ ckptFile.data.issues[repos[t]].set => ckptFile'.data.issues[repos[t]].set
\* the entry a task wrote with its last page is in the file for as long as the issue
\* phase lasts, whatever the other tasks and onBatchComplete wrote after it
C35_LastEntriesPresent ==
  hpc = "issues" =>
    \A t \in 1..nItems :
      (Settled(t) /\ tl[t].ipc = "returned" /\ ~tl[t].hasNext) =>
        ckptFile.data.issues[repos[t]] =
          [set |-> TRUE, endCursor |-> tl[t].cursor, count |-> tl[t].fetched]

\* C35: the issue tasks running concurrently and onBatchComplete update the checkpoint
\* by a read-modify-write of the whole record; in every interleaving each write keeps
\* the org and repos fields and every issues entry written by another task, and the last
\* entry of each repository is in the file once all tasks have finished.
C35_NoLostUpdate == [][C35_WritePreserves]_vars /\ []C35_LastEntriesPresent
\* all three tasks of organization "a" have finished, two of them ran side by side, and
\* the file holds an entry for each of the three repositories and the progress of both
\* batches
C35_Witness ==
  /\ hpc = "issues" /\ nItems = 3
  /\ \A t \in 1..3 : Settled(t) /\ ckptFile.data.issues[repos[t]].set
  /\ BatchOf(1) = BatchOf(2)
  /\ ckptFile.data.batchesCompleted = 2
  /\ ckptFile.data.org = org

\* a checkpoint record without issues entries and without the progress field
NoIssueState(cp) ==
  /\ \A r \in RepoNames : cp.issues[r] = NoEntry
  /\ cp.batchesCompleted = 0 /\ cp.totalBatches = 0
\* the step in which fetchRepositories writes its checkpoint after a page (line 331)
\* leaves a record of org, repos and lastPage only
C36_RepoWriteReplaces ==
  (hpc \in {"repoRequest", "repoBulkWrite"} /\ hpc' = "repoSleep") =>
    /\ ckptFile'.exists /\ ckptFile'.parsable
    /\ ckptFile'.data.org = org /\ ckptFile'.data.hasRepos
    /\ ckptFile'.data.lastPage = rPage /\ ckptFile'.data.timestamp = now
    /\ NoIssueState(ckptFile'.data)
\* the checkpoint loaded by fetchIssues (line 436) holds no issues entry
C36_NoOldIssueCursors ==
  hpc \in {"issuesFind", "issues"} => \A r \in RepoNames : ~fcp.issues[r].set

\* C36: each checkpoint write of fetchRepositories replaces the whole record with org,
\* repos, lastPage and the time: the issues entries and the progress field the file held
\* before are gone after it; and as fetchRepositories always processes a page, the
\* checkpoint fetchIssues loads never holds an issue cursor of an earlier run.
C36_RepoCheckpointDropsIssues == [][C36_RepoWriteReplaces]_vars /\ []C36_NoOldIssueCursors
\* a run that found issues entries and progress of an earlier run in the file, for the
\* same organization, has reached fetchIssues, which loaded a checkpoint without them
C36_Witness ==
  /\ hpc = "issues"
  /\ cpAtStart.org = org
  /\ \E r \in RepoNames : cpAtStart.issues[r].set
  /\ cpAtStart.batchesCompleted > 0
  /\ NoIssueState(fcp)

\* a list of items in the order of their positions in the input list
InInputOrder(seq) == \A i, j \in 1..Len(seq) : i < j => seq[i] < seq[j]
\* the items of the batches whose outcomes have been recorded
Recorded == 1..Len(progressCalls)

\* C37: results and errors are each in the order of the items' positions in the input,
\* and onProgress is called for the items of a batch in input order only once the whole
\* batch has settled, in whatever order the items completed.
C37_ResultsInInputOrder ==
  /\ InInputOrder(results) /\ InInputOrder(errors)
  /\ \A i \in 1..Len(progressCalls) :
       /\ progressCalls[i][1] = i
       /\ progressCalls[i][2] = (tstate[i] = "resolved")
       /\ \A k \in 1..nItems : BatchOf(k) = BatchOf(i) => Settled(k)
  /\ {results[i] : i \in 1..Len(results)} = {k \in Recorded : tstate[k] = "resolved"}
  /\ {errors[i] : i \in 1..Len(errors)} = {k \in Recorded : tstate[k] = "rejected"}
\* a later item of a batch has settled while an earlier item of the batch is still
\* running: no onProgress call has been made for it, and the batch before it, whose
\* items both ended up in results, is recorded in input order
C37_Witness ==
  /\ nItems = 4 /\ batchSize = 2
  /\ results = <<1, 2>> /\ Len(progressCalls) = 2
  /\ tstate[3] = "running" /\ tstate[4] = "resolved"

\* what the caller of fetchOrgRepos gets: the list returned, or only the error
NoValue == <<-1>>
OrgReposValue == IF oPc = "returned" THEN oRepos ELSE NoValue
\* the repositories listed from page oStart on that the since date admits, in order
OrgReposExpected ==
  FilterFrom(oList, (oStart - 1) * RestPageSize + 1, Len(oList), oSince)

\* C38: fetchOrgRepos requests the pages startPage, startPage + 1, ... in that order and
\* stops after the first page that is empty or not full; from page 1 on n repositories
\* it makes floor(n / page size) + 1 requests; it returns exactly the repositories with
\* pushed_at >= since (all of them without since); and when a request throws, the call
\* ends with the error and the caller gets no list.
C38_FetchOrgReposPaging ==
  /\ \A i \in 1..Len(oRequested) :
       /\ oRequested[i] = oStart + i - 1
       /\ i < Len(oRequested) => Cardinality(RestPage(oList, oRequested[i])) = RestPageSize
  /\ oPc = "returned" =>
       /\ Cardinality(RestPage(oList, oRequested[Len(oRequested)])) < RestPageSize
       /\ oStart = 1 => Len(oRequested) = (Len(oList) \div RestPageSize) + 1
       /\ oRepos = OrgReposExpected
  /\ oPc = "thrown" => OrgReposValue = NoValue
  /\ oPc \in {"sleep", "thrown"} => Len(oRequested) >= 1
\* fetchOrgRepos returned from page 1 of a list that ends with a full page, after the
\* request of the empty page behind it, having dropped a repository older than since
C38_Witness ==
  /\ oPc = "returned" /\ oStart = 1 /\ oSince # NoSince
  /\ Len(oList) = 2 * RestPageSize /\ Len(oRequested) = 3
  /\ Len(oRepos) > 0 /\ Len(oRepos) < Len(oList)

\* handleFetchAction awaits something inside its try block
InTry == hpc \in {"connect", "repoRequest", "repoBulkWrite", "repoSleep", "issuesFind", "issues"}
\* no repository or issue work of the run is going on: no request, write or sleep of
\* fetchRepositories is awaited, no task of the processor is queued or running, and
\* processItems is not inside its loop
WorkStopped ==
  /\ ~InTry
  /\ running = 0 /\ queue = <<>>
  /\ \A t \in DOMAIN tstate : tstate[t] \in {"new", "resolved", "rejected"}
  /\ \A t \in RepoNames : tl[t].ipc \in {"none", "returned", "thrown"}
  /\ bpc \in {"idle", "returned"}
\* closeConnection is called when the try block is left, by return or by throw, and at
\* no other time; handleFetchAction returns only from the closeConnection it awaits
C39_CloseCalledOnce ==
  /\ (hpc' = "closing" /\ hpc # "closing") <=> (InTry /\ hpc' # "killed" /\ ~InTry')
  /\ (hpc' = "done" /\ hpc # "done") => hpc = "closing"
  /\ (hpc = "closing" /\ hpc' # "closing") => hpc' \in {"done", "killed"}

\* C39: handleFetchAction calls closeConnection exactly once after the run on every
\* path, whether the run succeeded, fetchRepositories or fetchIssues threw, or
\* connecting failed, and only when all repository and issue work has stopped.
C39_ConnectionReleased ==
  /\ [][C39_CloseCalledOnce]_vars
  /\ [](hpc \in {"closing", "done"} => WorkStopped)
\* closeConnection has resolved after a run in which an issue task failed and the others
\* were worked off
C39_Witness ==
  /\ hpc = "done" /\ failure = "none" /\ nItems = 3
  /\ \E t \in 1..3 : tstate[t] = "rejected"
  /\ \E t \in 1..3 : tstate[t] = "resolved" /\ tl[t].page = 2

\* C40: in every state reachable by any interleaving of connectToMongo (also two
\* overlapping calls, one of which fails), closeConnection, the serverClosed handler and
\* attemptReconnect, databaseInstance is non-null exactly when connectionState is
\* CONNECTED, so getDb returns a handle exactly when the state is CONNECTED.
C40_ConnectionStateInvariant ==
  (GetDb # NullRef) <=> (connectionState = "CONNECTED")
\* the half of it that does hold: in state CONNECTED there is a handle
C40_ConnectedHasHandle == connectionState = "CONNECTED" => GetDb # NullRef

====
